---- MODULE Spec2Model ----
(***************************************************************************)
(* tui-logger: circular buffer, logger core (hot/cold buffers, level       *)
(* selection) and the paging algorithm of the log widget.                  *)
(*                                                                         *)
(* Conventions                                                             *)
(*  - Option<T>: None is <<>>, Some(x) is <<x>>.                           *)
(*  - Vec<T> is a sequence; Rust index i is TLA+ index i + 1.              *)
(*  - log::Level / log::LevelFilter are their usize discriminants:         *)
(*    Off = 0, Error = 1, Warn = 2, Info = 3, Debug = 4, Trace = 5.        *)
(*  - A panic of an operation is recorded in the variable panic (the       *)
(*    message of the panic of the most recent operation, "" if it          *)
(*    returned); the data is left as the code leaves it when unwinding.    *)
(***************************************************************************)
EXTENDS Integers, Sequences, FiniteSets, TLC

VARIABLES
    cb,          \* a CircularBuffer<T> under test (circular.rs)
    pushed,      \* ghost: elements of the completed pushes since new()/take()
    taken,       \* ghost: Vec returned by the last completed take()
    drained,     \* ghost: value of pushed when the last take() was called
    created,     \* ghost: the max_depth the buffer under test was created with
    op,          \* ghost: name of the most recent operation
    panic,       \* "" or the panic message of the most recent operation
    hot_select,  \* TUI_LOGGER.hot_select: HotSelect {filter, hashtable, default}
    hot_log,     \* TUI_LOGGER.hot_log: HotLog {events, mover_thread}
    inner,       \* TUI_LOGGER.inner: TuiLoggerInner
    accepted,    \* ghost: records pushed into the hot buffer since the last swap
    moved,       \* ghost: what the last move_events() that swapped found
    lastSet,     \* ghost: target -> Option(level of the last set_level_for_target)
    lastDefault, \* ghost: level of the last set_default_level (initially the built-in one)
    budget,      \* number of calls the application may still make (log calls;
                 \* in SpecMerge the calls of the setters of the widget's table)
    state,       \* TuiWidgetState.inner: TuiWidgetInnerState shared by the widgets
    shown,       \* ghost: what the last render of the log widget drew (None before)
    before,      \* ghost: the value of shown before the last render
    key,         \* ghost: the last transition since the last render ("" if none)
    keyed,       \* ghost: the value of key when the last render started
    area,        \* the Rect the terminal gives the log widget: [width, height]
    prior,       \* ghost: op and the widget's table when the last target widget
                 \* render or setter of the widget's table began
    dispatcher,  \* a Dispatcher<E> (dispatcher.rs): [map]
    dispatched,  \* ghost: what the last dispatch() found and did (None before)
    threads,     \* the threads of the application: thread -> [pc, ...locals of
                 \* the call in progress]
    mutex,       \* the Mutexes: name -> Option(thread that holds the lock)
    captured     \* ghost: number of records pushed into a hot buffer by the
                 \* threads since start

dispatcherVars == <<dispatcher, dispatched>>
\* the buffer under test and the dispatcher stand alone: no operation of the
\* logger or of the widgets touches them
threadVars == <<threads, mutex, captured>>
cbVars == <<cb, pushed, taken, drained, created, dispatcherVars, threadVars>>
loggerVars == <<hot_select, hot_log, inner, accepted, moved, lastSet, lastDefault, budget>>
widgetVars == <<state, shown, before, key, keyed, area, prior>>
vars == <<cbVars, op, panic, loggerVars, widgetVars>>

(***************************************************************************)
(* Bounds                                                                  *)
(***************************************************************************)
MaxCap == 3          \* capacities 0..MaxCap of the buffer under test
MaxPush == 7         \* at most MaxPush completed pushes between two takes
Elems == {1, 2}      \* element values pushed into the buffer under test
HotDepth0 == 2       \* depth of the hot buffer at start (stands for 1000)
ColdDepth0 == 4      \* depth of the cold buffer at start (stands for 10000)
MaxDepth == 2        \* set_hot_buffer_depth(0..MaxDepth)
MaxLog == 3          \* log calls of a behaviour of SpecLog
MaxLevelLog == 1     \* log calls of a behaviour of SpecLevel
MaxGen == 3          \* set_level_for_target while the cold table's generation < MaxGen
Targets == {"a", "b"}   \* targets the application logs with
MaxEvents == 4       \* records in the cold store of SpecView
MaxHeight == 4       \* heights 0..MaxHeight of the log widget's area
LineCounts == {1, 2, 4} \* numbers of lines a record is formatted to
ViewDepth == 2       \* the smaller cold buffer depth of SpecView
MaxEnvLog == 3       \* log calls in SpecEnv
MaxWidgetSet == 2    \* calls of the setters of the widget's table in SpecMerge
MaxTargetHeight == 2 \* heights 0..MaxTargetHeight of the target widget's area

None == <<>>
Some(x) == <<x>>
Min(a, b) == IF a < b THEN a ELSE b
Max(a, b) == IF a < b THEN b ELSE a

(***************************************************************************)
(* circular.rs: CircularBuffer<T>                                          *)
(*   buffer: Vec<T> (Vec::with_capacity(max_depth); the capacity never     *)
(*   changes because push() appends only while len < capacity),            *)
(*   next_write_pos: usize.                                                *)
(***************************************************************************)
CircularBuffer_new(max_depth) ==
    [buffer |-> <<>>, capacity |-> max_depth, next_write_pos |-> 0]

len(self) == Len(self.buffer)
is_empty(self) == self.buffer = <<>>
capacity(self) == self.capacity

first_index(self) ==
    IF self.next_write_pos = 0 THEN None
    ELSE IF self.next_write_pos < capacity(self) THEN Some(0)
    ELSE Some(self.next_write_pos - capacity(self))

last_index(self) ==
    IF self.next_write_pos = 0 THEN None
    ELSE Some(self.next_write_pos - 1)

\* mutant of element_at_index: the oldest retained element is not addressable
element_at_index_offByOne(self, index) ==
    LET max_depth == capacity(self) IN
    IF index >= self.next_write_pos THEN None
    ELSE IF index + max_depth <= self.next_write_pos THEN None
    ELSE Some(self.buffer[(index % max_depth) + 1])

\* index % max_depth is only evaluated when max_depth > 0: with max_depth = 0
\* one of the two early returns is always taken.
element_at_index(self, index) ==
    LET max_depth == capacity(self) IN
    IF index >= self.next_write_pos THEN None
    ELSE IF index + max_depth < self.next_write_pos THEN None
    ELSE Some(self.buffer[(index % max_depth) + 1])

\* self.next_write_pos % max_depth with max_depth = 0 panics
\* ("attempt to calculate the remainder with a divisor of zero").
push_panics(self) == ~(len(self) < capacity(self)) /\ capacity(self) = 0

\* mutant of push: the write counter stops at the capacity
push_counterSaturates(self, elem) ==
    LET max_depth == capacity(self) IN
    [self EXCEPT
        !.buffer = IF len(self) < max_depth
                   THEN Append(self.buffer, elem)
                   ELSE [self.buffer EXCEPT ![(self.next_write_pos % max_depth) + 1] = elem],
        !.next_write_pos = IF len(self) < max_depth THEN self.next_write_pos + 1
                           ELSE self.next_write_pos]

push(self, elem) ==
    LET max_depth == capacity(self) IN
    [self EXCEPT
        !.buffer = IF len(self) < max_depth
                   THEN Append(self.buffer, elem)
                   ELSE [self.buffer EXCEPT ![(self.next_write_pos % max_depth) + 1] = elem],
        !.next_write_pos = self.next_write_pos + 1]

take_panics(self) == ~(len(self) < capacity(self)) /\ capacity(self) = 0

\* the Vec returned by take()
take_consumed(self) ==
    LET max_depth == capacity(self) IN
    IF len(self) < max_depth THEN self.buffer
    ELSE LET pos == self.next_write_pos % max_depth IN
         SubSeq(self.buffer, pos + 1, len(self)) \o SubSeq(self.buffer, 1, pos)

\* the buffer left behind by take()
take(self) == [self EXCEPT !.buffer = <<>>, !.next_write_pos = 0]

total_elements(self) == self.next_write_pos
has_wrapped(self) == self.next_write_pos > capacity(self)

Reverse(s) == [i \in 1..Len(s) |-> s[Len(s) + 1 - i]]

\* mutant of iter: a wrapped buffer is read in storage order
iter_storageOrder(self) == self.buffer

\* next_write_pos <= max_depth covers max_depth = 0 (nothing was ever pushed)
iter(self) ==
    LET max_depth == capacity(self) IN
    IF self.next_write_pos <= max_depth THEN self.buffer
    ELSE LET wrap == self.next_write_pos % max_depth IN
         SubSeq(self.buffer, wrap + 1, len(self)) \o SubSeq(self.buffer, 1, wrap)

rev_iter(self) ==
    LET max_depth == capacity(self) IN
    IF self.next_write_pos <= max_depth THEN Reverse(self.buffer)
    ELSE LET wrap == self.next_write_pos % max_depth IN
         Reverse(SubSeq(self.buffer, 1, wrap)) \o Reverse(SubSeq(self.buffer, wrap + 1, len(self)))


(***************************************************************************)
(* log::Level and log::LevelFilter                                         *)
(***************************************************************************)
Off == 0
Error == 1
Warn == 2
Info == 3
Debug == 4
Trace == 5
Levels == Error..Trace            \* log::Level
LevelFilters == Off..Trace        \* log::LevelFilter

\* maps (HashMap): functions with a finite domain
EmptyMap == [k \in {} |-> 0]
Put(m, k, v) == [x \in (DOMAIN m) \cup {k} |-> IF x = k THEN v ELSE m[x]]

(***************************************************************************)
(* config/level_config.rs: LevelConfig                                     *)
(***************************************************************************)
LevelConfig_new ==
    [config |-> EmptyMap, generation |-> 0, origin_generation |-> 0,
     default_display_level |-> None]

\* mutant of LevelConfig_set: the generation is incremented by every call
LevelConfig_set_alwaysBumps(self, target, level) ==
    [self EXCEPT !.config = Put(self.config, target, level),
                 !.generation = self.generation + 1]

LevelConfig_set(self, target, level) ==
    IF target \in DOMAIN self.config
    THEN IF self.config[target] # level
         THEN [self EXCEPT !.config[target] = level,
                           !.generation = self.generation + 1]
         ELSE self
    ELSE [self EXCEPT !.config = Put(self.config, target, level),
                      !.generation = self.generation + 1]

LevelConfig_get(self, target) ==
    IF target \in DOMAIN self.config THEN Some(self.config[target]) ELSE None

LevelConfig_set_default_display_level(self, level) ==
    [self EXCEPT !.default_display_level = Some(level)]

\* mutant of LevelConfig_merge_level: the more verbose of the two levels
LevelConfig_merge_level_moreVerbose(self, origin_levelfilter) ==
    IF self.default_display_level # None
    THEN Max(self.default_display_level[1], origin_levelfilter)
    ELSE origin_levelfilter

\* merge: the level set for a target that is unknown or too verbose
LevelConfig_merge_level(self, origin_levelfilter) ==
    IF self.default_display_level # None
    THEN IF self.default_display_level[1] > origin_levelfilter
         THEN origin_levelfilter
         ELSE self.default_display_level[1]
    ELSE origin_levelfilter

\* merge: the loop over the entries of origin that are still to be visited
\* (the entries have different targets, so the order of the HashMap
\* iteration does not matter)
RECURSIVE LevelConfig_merge_entries(_, _, _)
LevelConfig_merge_entries(self, origin, targets) ==
    IF targets = {} THEN self
    ELSE LET target == CHOOSE t \in targets : TRUE IN
         LevelConfig_merge_entries(
             IF /\ LevelConfig_get(self, target) # None
                /\ LevelConfig_get(self, target)[1] <= origin.config[target]
             THEN self
             ELSE LevelConfig_set(self, target,
                                  LevelConfig_merge_level(self, origin.config[target])),
             origin, targets \ {target})

\* mutant of LevelConfig_merge: the generation counts the merge
LevelConfig_merge_countsMerge(self, origin) ==
    IF self.origin_generation # origin.generation
    THEN [LevelConfig_merge_entries(self, origin, DOMAIN origin.config)
             EXCEPT !.generation = self.generation + 1]
    ELSE self

\* merge: origin_generation is compared but never written
LevelConfig_merge(self, origin) ==
    IF self.origin_generation # origin.generation
    THEN [LevelConfig_merge_entries(self, origin, DOMAIN origin.config)
             EXCEPT !.generation = origin.generation]
    ELSE self

(***************************************************************************)
(* logger/logger.rs: ExtLogRecord                                          *)
(*   The timestamp, file, module_path and line of a record are not         *)
(*   modelled.  msg is <<"text", n>> for a message of the application (n   *)
(*   is the number of lines the message is formatted to) and               *)
(*   <<"lost", k, e, t>> for "There have been k events lost, e recorded    *)
(*   out of t".                                                            *)
(***************************************************************************)
OverrunTarget == "TuiLogger"
AllTargets == Targets \cup {OverrunTarget}

ExtLogRecord_from(target, level, lines) ==
    [level |-> level, target |-> target, msg |-> <<"text", lines>>]

ExtLogRecord_overrun(total, elements) ==
    [level |-> Warn, target |-> OverrunTarget,
     msg |-> <<"lost", total - elements, elements, total>>]

(***************************************************************************)
(* fxhash::hash64 of a target.  The 64-bit hash values of the modelled     *)
(* targets are taken to be pairwise different.                             *)
(***************************************************************************)
fxhash64(target) ==
    CASE target = "a" -> 1001
      [] target = "b" -> 1002
      [] target = OverrunTarget -> 1003
      [] OTHER -> 1000

(***************************************************************************)
(* env_filter::Filter::enabled: a built filter is modelled by the level    *)
(* filter of the directive that applies to each target (Off if there is    *)
(* none).                                                                  *)
(***************************************************************************)
Filter_enabled(filter, target, level) == level <= filter[target]

(***************************************************************************)
(* logger/logger.rs: impl Log for TuiLogger                                *)
(***************************************************************************)
\* mutant of enabled: the override is compared strictly
enabled_strict(hs, target, level) ==
    LET h == fxhash64(target) IN
    IF h \in DOMAIN hs.hashtable THEN level < hs.hashtable[h]
    ELSE IF hs.filter # None THEN Filter_enabled(hs.filter[1], target, level)
    ELSE level <= hs.default

enabled(hs, target, level) ==
    LET h == fxhash64(target) IN
    IF h \in DOMAIN hs.hashtable THEN level <= hs.hashtable[h]
    ELSE IF hs.filter # None THEN Filter_enabled(hs.filter[1], target, level)
    ELSE level <= hs.default

\* raw_log: the push panics for capacity 0; for capacity 1 the record is
\* pushed and total_elements() % (capacity() / 2) then divides by zero.
raw_log_panics(hl) == push_panics(hl.events) \/ capacity(hl.events) \div 2 = 0

raw_log(hl, log_entry) ==
    IF push_panics(hl.events) THEN hl
    ELSE [hl EXCEPT !.events = push(hl.events, log_entry)]

(***************************************************************************)
(* logger/logger.rs: TuiLogger::move_events                                *)
(***************************************************************************)
\* the level filters probed for an unseen target, in the order of the code
ProbeOrder == <<Trace, Debug, Info, Warn, Error>>

\* mutant of FilterBoundary: the probe runs from the least verbose level
FilterBoundary_leastVerbose(filter, target) ==
    IF Filter_enabled(filter, target, Error) THEN Some(Error) ELSE None

\* the first level filter of ProbeOrder the filter enables for the target
\* (None if there is none)
FilterBoundary(filter, target) ==
    LET hits == {i \in 1..Len(ProbeOrder) : Filter_enabled(filter, target, ProbeOrder[i])} IN
    IF hits = {} THEN None
    ELSE Some(ProbeOrder[CHOOSE i \in hits : \A j \in hits : i <= j])

\* mutant of MoveEntry: the boundary found by the probe is stored in the
\* cold table only
MoveEntry_coldOnly(st, log_entry) ==
    LET tli == st.tli
        unseen == LevelConfig_get(tli.targets, log_entry.target) = None
        probe == IF unseen /\ tli.filter # None
                    /\ Filter_enabled(tli.filter[1], log_entry.target, log_entry.level)
                 THEN FilterBoundary(tli.filter[1], log_entry.target)
                 ELSE None
        default_level == IF probe # None THEN probe[1] ELSE tli.default
        targets == IF unseen
                   THEN LevelConfig_set(tli.targets, log_entry.target, default_level)
                   ELSE tli.targets
    IN  IF st.panic # "" THEN st
        ELSE IF push_panics(tli.events)
        THEN [tli |-> [tli EXCEPT !.targets = targets],
              hashtable |-> st.hashtable,
              panic |-> "remainder with a divisor of zero"]
        ELSE [tli |-> [tli EXCEPT !.targets = targets,
                                  !.events = push(tli.events, log_entry)],
              hashtable |-> st.hashtable,
              panic |-> ""]

\* One pass of the consolidation loop for log_entry: seeding of an unseen
\* target, then the push into the cold buffer.  st is [tli, hashtable, panic].
MoveEntry(st, log_entry) ==
    LET tli == st.tli
        unseen == LevelConfig_get(tli.targets, log_entry.target) = None
        probe == IF unseen /\ tli.filter # None
                    /\ Filter_enabled(tli.filter[1], log_entry.target, log_entry.level)
                 THEN FilterBoundary(tli.filter[1], log_entry.target)
                 ELSE None
        default_level == IF probe # None THEN probe[1] ELSE tli.default
        hashtable == IF probe # None
                     THEN Put(st.hashtable, fxhash64(log_entry.target), probe[1])
                     ELSE st.hashtable
        targets == IF unseen
                   THEN LevelConfig_set(tli.targets, log_entry.target, default_level)
                   ELSE tli.targets
    IN  IF st.panic # "" THEN st
        ELSE IF push_panics(tli.events)
        THEN [tli |-> [tli EXCEPT !.targets = targets],
              hashtable |-> hashtable,
              panic |-> "remainder with a divisor of zero"]
        ELSE [tli |-> [tli EXCEPT !.targets = targets,
                                  !.events = push(tli.events, log_entry)],
              hashtable |-> hashtable,
              panic |-> ""]

RECURSIVE MoveLoop(_, _)
MoveLoop(st, entries) ==
    IF entries = <<>> THEN st
    ELSE MoveLoop(MoveEntry(st, Head(entries)), Tail(entries))

\* mutant of MoveEntries: the drained records are pushed newest first
MoveEntries_newestFirst(received_events) ==
    LET total == total_elements(received_events)
        elements == len(received_events)
        consumed == take_consumed(received_events)
    IN  IF total > elements
        THEN <<ExtLogRecord_overrun(total, elements)>> \o Reverse(consumed)
        ELSE Reverse(consumed)

\* The records in the order in which the second loop pops them from
\* `reversed`: the overflow record (pushed last, so popped first), then the
\* drained records oldest first.
MoveEntries(received_events) ==
    LET total == total_elements(received_events)
        elements == len(received_events)
        consumed == take_consumed(received_events)
    IN  IF total > elements
        THEN <<ExtLogRecord_overrun(total, elements)>> \o consumed
        ELSE consumed

(***************************************************************************)
(* widget/inner.rs: LinePointer, TuiWidgetInnerState                       *)
(***************************************************************************)
LinePointer(event_index, subline) ==
    [event_index |-> event_index, subline |-> subline]

TuiWidgetInnerState_new ==
    [config |-> LevelConfig_new,
     nr_items |-> 0,
     selected |-> 0,
     opt_line_pointer_center |-> None,
     opt_line_pointer_next_page |-> None,
     opt_line_pointer_prev_page |-> None,
     opt_selected_target |-> None,
     opt_selected_visibility_more |-> None,
     opt_selected_visibility_less |-> None,
     opt_selected_recording_more |-> None,
     opt_selected_recording_less |-> None,
     offset |-> 0,
     hide_off |-> FALSE,
     hide_target |-> FALSE,
     focus_selected |-> FALSE]

TuiWidgetEvent ==
    {"SpaceKey", "UpKey", "DownKey", "LeftKey", "RightKey", "PlusKey",
     "MinusKey", "HideKey", "FocusKey", "PrevPageKey", "NextPageKey", "EscapeKey"}

\* Left/Right: Option::take() of the selected target, then of the level
transition_visibility(self, opt_level) ==
    IF self.opt_selected_target = None THEN self
    ELSE IF opt_level = None THEN [self EXCEPT !.opt_selected_target = None]
    ELSE [self EXCEPT !.opt_selected_target = None,
                      !.config = LevelConfig_set(self.config,
                                                 self.opt_selected_target[1], opt_level[1])]

\* mutant of transition: the focus key leaves the scroll mode as well
transition_focusEscapes(self, event) ==
    IF event = "FocusKey"
    THEN [self EXCEPT !.focus_selected = ~self.focus_selected,
                      !.opt_line_pointer_center = None]
    ELSE IF event = "PrevPageKey"
    THEN [self EXCEPT !.opt_line_pointer_center = self.opt_line_pointer_prev_page]
    ELSE IF event = "NextPageKey"
    THEN [self EXCEPT !.opt_line_pointer_center = self.opt_line_pointer_next_page]
    ELSE IF event = "EscapeKey" THEN [self EXCEPT !.opt_line_pointer_center = None]
    ELSE self

\* TuiWidgetInnerState::transition, the part that changes the widget state
transition(self, event) ==
    CASE event = "SpaceKey" -> [self EXCEPT !.hide_off = ~self.hide_off]
      [] event = "HideKey" -> [self EXCEPT !.hide_target = ~self.hide_target]
      [] event = "FocusKey" -> [self EXCEPT !.focus_selected = ~self.focus_selected]
      [] event = "UpKey" ->
            IF ~self.hide_target /\ self.selected > 0
            THEN [self EXCEPT !.selected = self.selected - 1] ELSE self
      [] event = "DownKey" ->
            IF ~self.hide_target /\ self.selected + 1 < self.nr_items
            THEN [self EXCEPT !.selected = self.selected + 1] ELSE self
      [] event = "LeftKey" ->
            [transition_visibility(self, self.opt_selected_visibility_less)
                EXCEPT !.opt_selected_visibility_less =
                    IF self.opt_selected_target = None
                    THEN self.opt_selected_visibility_less ELSE None]
      [] event = "RightKey" ->
            [transition_visibility(self, self.opt_selected_visibility_more)
                EXCEPT !.opt_selected_visibility_more =
                    IF self.opt_selected_target = None
                    THEN self.opt_selected_visibility_more ELSE None]
      [] event = "PlusKey" ->
            IF self.opt_selected_target = None THEN self
            ELSE [self EXCEPT !.opt_selected_target = None,
                              !.opt_selected_recording_more = None]
      [] event = "MinusKey" ->
            IF self.opt_selected_target = None THEN self
            ELSE [self EXCEPT !.opt_selected_target = None,
                              !.opt_selected_recording_less = None]
      [] event = "PrevPageKey" ->
            [self EXCEPT !.opt_line_pointer_center = self.opt_line_pointer_prev_page]
      [] event = "NextPageKey" ->
            [self EXCEPT !.opt_line_pointer_center = self.opt_line_pointer_next_page]
      [] event = "EscapeKey" -> [self EXCEPT !.opt_line_pointer_center = None]

\* Plus/Minus: the set_level_for_target(target, level) call of transition,
\* None if there is none
transition_recording(self, event) ==
    LET opt_level == IF event = "PlusKey" THEN self.opt_selected_recording_more
                     ELSE IF event = "MinusKey" THEN self.opt_selected_recording_less
                     ELSE None
    IN  IF self.opt_selected_target # None /\ opt_level # None
        THEN Some(<<self.opt_selected_target[1], opt_level[1]>>)
        ELSE None

(***************************************************************************)
(* widget/target.rs: TuiLoggerTargetWidget                                 *)
(***************************************************************************)
\* lib.rs advance_levelfilter: <<more, less>>
advance_levelfilter(levelfilter) ==
    <<IF levelfilter = Trace THEN None ELSE Some(levelfilter + 1),
      IF levelfilter = Off THEN None ELSE Some(levelfilter - 1)>>

\* the modelled targets in the order of Vec<String>::sort (byte order)
TargetOrder == <<"TuiLogger", "a", "b">>

\* render: self.targets, the sorted targets of the widget's table that are
\* not hidden
target_list(config, hide_off) ==
    SelectSeq(TargetOrder,
              LAMBDA t : /\ t \in DOMAIN config.config
                         /\ ~(hide_off /\ config.config[t] = Off))

\* mutant of target_selected: the selection is not clamped
target_selected_unclamped(selected, nr_items) == selected

\* render: the selection clamped to the list
target_selected(selected, nr_items) ==
    IF selected >= nr_items THEN Max(nr_items, 1) - 1 ELSE selected

\* render: the offset of the visible part of the list
target_offset(sel, offset, list_height, nr_items) ==
    IF sel < nr_items
    THEN IF sel >= offset + list_height THEN sel - list_height + 1
         ELSE IF Min(sel, offset) + list_height > nr_items THEN nr_items - list_height
         ELSE Min(sel, offset)
    ELSE 0

\* render, lines 149-187: the selection; st has the merged table, targets
\* is self.targets, sel the clamped selection
target_select(st, targets, sel, hot_targets, la_height) ==
    [st EXCEPT
        !.nr_items = Len(targets),
        !.selected = sel,
        !.opt_selected_target =
            IF sel < Len(targets) THEN Some(targets[sel + 1]) ELSE st.opt_selected_target,
        !.opt_selected_visibility_more =
            IF sel < Len(targets)
            THEN advance_levelfilter(st.config.config[targets[sel + 1]])[1]
            ELSE st.opt_selected_visibility_more,
        !.opt_selected_visibility_less =
            IF sel < Len(targets)
            THEN advance_levelfilter(st.config.config[targets[sel + 1]])[2]
            ELSE st.opt_selected_visibility_less,
        !.opt_selected_recording_more =
            IF sel < Len(targets)
            THEN IF LevelConfig_get(hot_targets, targets[sel + 1]) # None
                 THEN advance_levelfilter(hot_targets.config[targets[sel + 1]])[1]
                 ELSE None
            ELSE st.opt_selected_recording_more,
        !.opt_selected_recording_less =
            IF sel < Len(targets)
            THEN IF LevelConfig_get(hot_targets, targets[sel + 1]) # None
                 THEN advance_levelfilter(hot_targets.config[targets[sel + 1]])[2]
                 ELSE None
            ELSE st.opt_selected_recording_less,
        !.offset = target_offset(sel, st.offset, Min(la_height, Len(targets)),
                                 Len(targets))]

\* render, lines 191-192: self.targets[i + offset] is out of range
target_panics(st, la_height) ==
    \E i \in 0..(Min(la_height, st.nr_items) - 1) : i + st.offset >= st.nr_items

\* render with the merged table
target_merged(st, hot_targets, la_height) ==
    target_select(st, target_list(st.config, st.hide_off),
                  target_selected(st.selected, Len(target_list(st.config, st.hide_off))),
                  hot_targets, la_height)

\* Widget::render of TuiLoggerTargetWidget: the widget state
render_target(st, hot_targets, la_width, la_height) ==
    IF la_width < 8 \/ la_height < 1 THEN st
    ELSE target_merged([st EXCEPT !.config = LevelConfig_merge(st.config, hot_targets)],
                       hot_targets, la_height)

(***************************************************************************)
(* widget/standard.rs: TuiLoggerWidget                                     *)
(***************************************************************************)
\* LogStandardFormatter::min_width
min_width == 9 + 4

\* LogFormatter::format(width, evt): the lines of the record at evt_index.
\* A line is identified by the record it belongs to and its position among
\* the lines of that record; the number of lines is a property of the
\* message (the synthesized overflow message fits one line).
format(evt_index, evt) ==
    LET n == IF evt.msg[1] = "text" THEN evt.msg[2] ELSE 1 IN
    [j \in 1..n |-> [event |-> evt_index, row |-> j - 1]]

\* mutant of skip: the default display level is not consulted
skip_explicitOnly(st, evt) ==
    LET level == LevelConfig_get(st.config, evt.target)
        by_level == level # None /\ level[1] < evt.level
    IN  \/ by_level
        \/ /\ st.focus_selected
           /\ st.opt_selected_target # None
           /\ st.opt_selected_target[1] # evt.target

\* next_event: the display filter of an event
skip(st, evt) ==
    LET explicit == LevelConfig_get(st.config, evt.target)
        level == IF explicit # None THEN explicit ELSE st.config.default_display_level
        by_level == level # None /\ level[1] < evt.level
    IN  \/ by_level
        \/ /\ st.focus_selected
           /\ st.opt_selected_target # None
           /\ st.opt_selected_target[1] # evt.target

\* next_event: the while loop; the result is None or
\* Some([next |-> optional next index, index |-> index of the event])
RECURSIVE next_event_scan(_, _, _, _)
next_event_scan(events, index, increment, st) ==
    LET evt == element_at_index(events, index) IN
    IF evt = None THEN None
    ELSE IF skip(st, evt[1])
    THEN IF increment THEN next_event_scan(events, index + 1, increment, st)
         ELSE IF index = 0 THEN None
         ELSE next_event_scan(events, index - 1, increment, st)
    ELSE IF increment THEN Some([next |-> Some(index + 1), index |-> index])
    ELSE IF index = 0 THEN Some([next |-> None, index |-> index])
    ELSE Some([next |-> Some(index - 1), index |-> index])

next_event(events, index, ignore_current, increment, st) ==
    IF ignore_current
    THEN IF increment THEN next_event_scan(events, index + 1, increment, st)
         ELSE IF index = 0 THEN None
         ELSE next_event_scan(events, index - 1, increment, st)
    ELSE next_event_scan(events, index, increment, st)

\* an element (evt_index, evt_lines, n) of the vector `lines` of Pos::Center
CenterEntry(events, evt_index) ==
    [evt_index |-> evt_index,
     evt_lines |-> format(evt_index, element_at_index(events, evt_index)[1]),
     n |-> Len(format(evt_index, element_at_index(events, evt_index)[1]))]

\* Pos::Center, `if from_line > 0`: prev is the older event found, if any;
\* c is [lines, from_line, to_line], the result has `cont` in addition
center_older(c, prev, e) ==
    IF c.from_line > 0
    THEN IF prev # None
         THEN [lines |-> <<e>> \o c.lines,
               from_line |-> c.from_line - e.n,
               to_line |-> c.to_line,
               cont |-> TRUE]
         ELSE [lines |-> c.lines,
               from_line |-> 0,
               to_line |-> c.to_line - c.from_line,
               cont |-> FALSE]
    ELSE [lines |-> c.lines, from_line |-> c.from_line,
          to_line |-> c.to_line, cont |-> FALSE]

\* Pos::Center: the `while cont` loop.  Older events are looked up from the
\* first element of `lines`, newer events always from event_index, the
\* index of the anchor.
RECURSIVE center_loop(_, _, _, _, _)
RECURSIVE center_newer(_, _, _, _, _, _)
RECURSIVE center_prev(_, _, _, _, _, _)
center_loop(c, events, event_index, la_height, st) ==
    center_prev(c,
                IF c.from_line > 0
                THEN next_event(events, c.lines[1].evt_index, TRUE, FALSE, st)
                ELSE None,
                events, event_index, la_height, st)

center_prev(c, prev, events, event_index, la_height, st) ==
    center_newer(center_older(c, prev,
                              IF prev # None THEN CenterEntry(events, prev[1].index)
                              ELSE None),
                 next_event(events, event_index, TRUE, TRUE, st),
                 events, event_index, la_height, st)

\* Pos::Center, `if to_line < la_height-1`: next is the newer event found,
\* if any (a negative to_line is the usize underflow center_panics reports)
center_newer(a, next, events, event_index, la_height, st) ==
    IF a.to_line < 0
    THEN [lines |-> a.lines, from_line |-> a.from_line, to_line |-> a.to_line]
    ELSE IF a.to_line < la_height - 1
    THEN IF next # None
         THEN center_loop([lines |-> a.lines \o <<CenterEntry(events, next[1].index)>>,
                           from_line |-> a.from_line,
                           to_line |-> a.to_line + CenterEntry(events, next[1].index).n],
                          events, event_index, la_height, st)
         ELSE IF ~a.cont
         THEN [lines |-> a.lines, from_line |-> a.from_line, to_line |-> a.to_line]
         ELSE center_loop([lines |-> a.lines,
                           from_line |-> a.from_line + (la_height - 1 - a.to_line),
                           to_line |-> la_height - 1],
                          events, event_index, la_height, st)
    ELSE IF a.cont
    THEN center_loop([lines |-> a.lines, from_line |-> a.from_line, to_line |-> a.to_line],
                     events, event_index, la_height, st)
    ELSE [lines |-> a.lines, from_line |-> a.from_line, to_line |-> a.to_line]

\* mutant of center_window: the anchored line is put on the top row
center_window_anchorTop(first, events, subline, la_height, st) ==
    center_loop([lines |-> <<first>>,
                 from_line |-> 0 - subline,
                 to_line |-> (first.n - 1) - subline],
                events, first.evt_index, la_height, st)

\* Pos::Center: `lines`, from_line and to_line when the loop is left;
\* first is the element of the anchored event
center_window(first, events, subline, la_height, st) ==
    center_loop([lines |-> <<first>>,
                 from_line |-> (la_height \div 2) - subline,
                 to_line |-> (la_height \div 2) + (first.n - 1) - subline],
                events, first.evt_index, la_height, st)

\* lines[0].1.remove(0) while from_line < 0
center_trim_front(c) ==
    [c EXCEPT !.lines[1].evt_lines =
        SubSeq(c.lines[1].evt_lines,
               (IF c.from_line < 0 THEN 0 - c.from_line ELSE 0) + 1,
               Len(c.lines[1].evt_lines))]

\* lines[n].1.pop() while to_line >= la_height (pop() of an empty vector
\* removes nothing)
center_trim_back(c, la_height) ==
    [c EXCEPT !.lines[Len(c.lines)].evt_lines =
        SubSeq(c.lines[Len(c.lines)].evt_lines, 1,
               Len(c.lines[Len(c.lines)].evt_lines)
                 - Min(IF c.to_line >= la_height THEN c.to_line - (la_height - 1) ELSE 0,
                       Len(c.lines[Len(c.lines)].evt_lines)))]

\* the lines of one element of `lines` as pushed to rev_lines: the lines are
\* taken first to last while n counts down from the number of formatted lines
center_tag(e) ==
    [k \in 1..Len(e.evt_lines) |->
        [lp |-> LinePointer(e.evt_index, e.n - k), line |-> e.evt_lines[k]]]

\* `while let Some(..) = lines.pop()`: the elements of `lines` last to first
RECURSIVE center_rev_lines(_)
center_rev_lines(lines) ==
    IF lines = <<>> THEN <<>>
    ELSE center_tag(lines[Len(lines)]) \o center_rev_lines(SubSeq(lines, 1, Len(lines) - 1))

\* the panic of Pos::Center, "" if there is none (debug build: unsigned
\* subtraction overflow panics; remove(0) of an empty vector panics);
\* c is the result of center_window
center_panics(first, c, subline, la_height) ==
    IF (la_height \div 2) + (first.n - 1) - subline < 0 \/ c.to_line < 0
    THEN "attempt to subtract with overflow"
    ELSE IF c.from_line < 0 /\ 0 - c.from_line > Len(c.lines[1].evt_lines)
    THEN "removal index (is 0) should be < len (is 0)"
    ELSE ""

\* Pos::Center from the anchored element on: the panic and rev_lines
center_collect(first, c, subline, la_height) ==
    IF center_panics(first, c, subline, la_height) # ""
    THEN [panic |-> center_panics(first, c, subline, la_height), rev_lines |-> <<>>]
    ELSE [panic |-> "",
          rev_lines |-> center_rev_lines(
                            center_trim_back(center_trim_front(c), la_height).lines)]

center_first(first, events, subline, la_height, st) ==
    center_collect(first, center_window(first, events, subline, la_height, st),
                   subline, la_height)

\* Pos::Center: found is the result of next_event for the anchor
center(found, events, subline, la_height, st) ==
    IF found = None THEN [panic |-> "", rev_lines |-> <<>>]
    ELSE center_first(CenterEntry(events, found[1].index), events, subline, la_height, st)

\* mutant of bottom_lines: the lines are taken from the front of evt_lines
bottom_lines_fromFront(evt_index, evt_lines, room) ==
    [i \in 1..Min(Len(evt_lines), room) |->
        [lp |-> LinePointer(evt_index, Min(Len(evt_lines), room) - i),
         line |-> evt_lines[Min(Len(evt_lines), room) + 1 - i]]]

\* Pos::Bottom, one event: the lines pushed to rev_lines, last line first,
\* until rev_lines holds la_height lines
bottom_lines(evt_index, evt_lines, room) ==
    [i \in 1..Min(Len(evt_lines), room) |->
        [lp |-> LinePointer(evt_index, Len(evt_lines) - i),
         line |-> evt_lines[Len(evt_lines) + 1 - i]]]

\* Pos::Bottom: the 'outer loop; rev_lines holds fewer than la_height lines
RECURSIVE bottom(_, _, _, _, _)
RECURSIVE bottom_found(_, _, _, _, _)
RECURSIVE bottom_filled(_, _, _, _, _)
bottom(rev_lines, events, event_index, la_height, st) ==
    bottom_found(rev_lines, next_event(events, event_index, FALSE, FALSE, st),
                 events, la_height, st)

bottom_found(rev_lines, found, events, la_height, st) ==
    IF found = None THEN rev_lines
    ELSE bottom_filled(rev_lines \o
                         bottom_lines(found[1].index,
                                      format(found[1].index,
                                             element_at_index(events, found[1].index)[1]),
                                      la_height - Len(rev_lines)),
                       found[1].next, events, la_height, st)

bottom_filled(filled, opt_next_index, events, la_height, st) ==
    IF Len(filled) >= la_height THEN filled
    ELSE IF opt_next_index # None
    THEN bottom(filled, events, opt_next_index[1], la_height, st)
    ELSE filled

\* opt_pos_event_index: None or Some(<<pos, event_index>>)
opt_pos_event_index(st, events) ==
    IF st.opt_line_pointer_center # None
    THEN IF first_index(events) = None THEN None
         ELSE IF first_index(events)[1] <= st.opt_line_pointer_center[1].event_index
              THEN Some(<<"Center", st.opt_line_pointer_center[1].event_index>>)
              ELSE Some(<<"Top", first_index(events)[1]>>)
    ELSE IF last_index(events) = None THEN None
         ELSE Some(<<"Bottom", last_index(events)[1]>>)

\* render, `match pos`: the panic raised while the lines are collected
\* ("" if none) and rev_lines; pe is opt_pos_event_index
render_collect(st, events, la_height, pe) ==
    IF pe = None THEN [panic |-> "", rev_lines |-> <<>>]
    ELSE IF pe[1][1] = "Center"
    THEN center(next_event(events, pe[1][2], FALSE, TRUE, st), events,
                st.opt_line_pointer_center[1].subline, la_height, st)
    ELSE IF pe[1][1] = "Top" THEN [panic |-> "", rev_lines |-> <<>>]
    ELSE [panic |-> "", rev_lines |-> bottom(<<>>, events, pe[1][2], la_height, st)]

\* render: the widget state after the update of the page pointers
\* (can_scroll_up: there are events and pos is not Top; can_scroll_down:
\* there are events and the anchor is set)
render_state(st, pe, rev_lines) ==
    [st EXCEPT
        !.opt_line_pointer_next_page =
            IF pe # None /\ st.opt_line_pointer_center # None /\ rev_lines # <<>>
            THEN Some(rev_lines[1].lp) ELSE None,
        !.opt_line_pointer_prev_page =
            IF pe # None /\ pe[1][1] # "Top" /\ rev_lines # <<>>
            THEN Some(rev_lines[Len(rev_lines)].lp) ELSE None]

\* render: `offset`, the rows left free above the lines in scroll mode
\* (la_height - lines_cnt underflows if more lines than rows were collected)
render_offset(st, rev_lines, la_height) ==
    IF st.opt_line_pointer_center = None THEN 0
    ELSE la_height - Len(rev_lines)

\* render: the lines drawn, top to bottom (rev_lines.rev().take(la_height))
render_lines(rev_lines, la_height) ==
    SubSeq(Reverse(rev_lines), 1, Min(la_height, Len(rev_lines)))

\* what a render that returns early or panics leaves on the screen
Undrawn(st, la_height) ==
    [lines |-> <<>>, offset |-> 0, height |-> la_height,
     center |-> st.opt_line_pointer_center]

\* render after the lines were collected: the panic ("" if none), the widget
\* state and what is drawn
render_draw(st, la_height, pe, collected) ==
    IF collected.panic # ""
    THEN [panic |-> collected.panic, state |-> st, shown |-> Undrawn(st, la_height)]
    ELSE IF render_offset(st, collected.rev_lines, la_height) < 0
    THEN [panic |-> "attempt to subtract with overflow",
          state |-> render_state(st, pe, collected.rev_lines),
          shown |-> Undrawn(st, la_height)]
    ELSE [panic |-> "",
          state |-> render_state(st, pe, collected.rev_lines),
          shown |-> [lines |-> render_lines(collected.rev_lines, la_height),
                     offset |-> render_offset(st, collected.rev_lines, la_height),
                     height |-> la_height,
                     center |-> st.opt_line_pointer_center]]

render_at(st, events, la_height, pe) ==
    render_draw(st, la_height, pe, render_collect(st, events, la_height, pe))

\* mutant of render: the size of the area is not checked
render_anySize(st, events, la_width, la_height) ==
    render_at(st, events, la_height, opt_pos_event_index(st, events))

\* Widget::render of TuiLoggerWidget
render(st, events, la_width, la_height) ==
    IF la_width < min_width \/ la_height < 1
    THEN [panic |-> "", state |-> st, shown |-> Undrawn(st, la_height)]
    ELSE render_at(st, events, la_height, opt_pos_event_index(st, events))

(***************************************************************************)
(* dispatcher.rs: Dispatcher                                               *)
(***************************************************************************)
\* a listener (Box<dyn Fn(&E) -> bool>) is given by the events for which it
\* returns true; the call f(ev)
Listener_call(f, ev) == ev \in f

\* Dispatcher::new
Dispatcher_new == [map |-> <<>>]

\* Dispatcher::add_listener
add_listener(self, f) == [self EXCEPT !.map = Append(self.map, f)]

\* mutant of dispatch_loop: the loop goes on after a listener returned true
RECURSIVE dispatch_loop_noBreak(_, _, _, _)
dispatch_loop_noBreak(map, ev, called, processed) ==
    IF Len(called) = Len(map) THEN [called |-> called, processed |-> processed]
    ELSE dispatch_loop_noBreak(map, ev, Append(called, Len(called) + 1),
                               processed \/ Listener_call(map[Len(called) + 1], ev))

\* Dispatcher::dispatch, `for f in &self.map`: called holds the positions in
\* the chain of the listeners called so far
RECURSIVE dispatch_loop(_, _, _, _)
dispatch_loop(map, ev, called, processed) ==
    IF Len(called) = Len(map) THEN [called |-> called, processed |-> processed]
    ELSE IF Listener_call(map[Len(called) + 1], ev)
    THEN [called |-> Append(called, Len(called) + 1), processed |-> TRUE]
    ELSE dispatch_loop(map, ev, Append(called, Len(called) + 1), processed)

\* Dispatcher::dispatch: the dispatcher after the call; looped is the result
\* of the loop
dispatch(self, looped) ==
    IF looped.processed THEN [self EXCEPT !.map = <<>>] ELSE self

\* Dispatcher::clear
clear(self) == [self EXCEPT !.map = <<>>]

\* the Mutexes of lazy_static TUI_LOGGER and of a TuiWidgetState
Mutexes == {"hot_select", "hot_log", "inner", "state"}

\* no thread but the one that makes the calls: no lock is ever contended
InitNoThreads ==
    /\ threads = <<>>
    /\ mutex = [m \in Mutexes |-> None]
    /\ captured = 0

InitDispatcher ==
    /\ dispatcher = Dispatcher_new
    /\ dispatched = None

(***************************************************************************)
(* lazy_static TUI_LOGGER                                                  *)
(***************************************************************************)
InitLogger(logs) ==
    /\ budget = logs
    /\ hot_select = [filter |-> None, hashtable |-> EmptyMap, default |-> Info]
    /\ hot_log = [events |-> CircularBuffer_new(HotDepth0)]
    /\ inner = [hot_depth |-> HotDepth0,
                events |-> CircularBuffer_new(ColdDepth0),
                total_events |-> 0,
                default |-> Info,
                targets |-> LevelConfig_new,
                filter |-> None]
    /\ accepted = <<>>
    /\ moved = None
    /\ lastSet = [t \in AllTargets |-> None]
    /\ lastDefault = Info
    /\ state = TuiWidgetInnerState_new
    /\ shown = None
    /\ before = None
    /\ key = ""
    /\ keyed = ""
    /\ area = [width |-> min_width, height |-> 0]
    /\ prior = None

\* Log::log(record): enabled() check, then raw_log()
Log(target, level) ==
    /\ budget > 0
    /\ budget' = budget - 1
    /\ op' = "log"
    /\ IF enabled(hot_select, target, level)
       THEN LET log_entry == ExtLogRecord_from(target, level, 1) IN
            /\ hot_log' = raw_log(hot_log, log_entry)
            /\ panic' = IF raw_log_panics(hot_log)
                        THEN "remainder with a divisor of zero" ELSE ""
            /\ accepted' = IF push_panics(hot_log.events) THEN accepted
                           ELSE Append(accepted, log_entry)
       ELSE /\ panic' = ""
            /\ UNCHANGED <<hot_log, accepted>>
    /\ UNCHANGED <<hot_select, inner, moved, lastSet, lastDefault, cbVars, widgetVars>>

\* mutant of new_circular: the new hot buffer has the depth of construction
new_circular_initialDepth(tli) == CircularBuffer_new(HotDepth0)

\* move_events: the buffer that replaces the hot buffer
new_circular(tli) == CircularBuffer_new(tli.hot_depth)

\* mutant of MoveEvents: no early return, the buffers are exchanged and the
\* cold store is updated also when the hot buffer is empty
MoveEvents_alwaysSwaps ==
    /\ op' = "move_events"
    /\ LET received_events == hot_log.events
           total == total_elements(received_events)
           tli0 == [inner EXCEPT !.total_events = inner.total_events + total]
           st == MoveLoop([tli |-> tli0, hashtable |-> hot_select.hashtable,
                           panic |-> ""],
                          MoveEntries(received_events))
       IN  /\ hot_log' = [hot_log EXCEPT !.events = new_circular(inner)]
           /\ inner' = st.tli
           /\ hot_select' = [hot_select EXCEPT !.hashtable = st.hashtable]
           /\ panic' = st.panic
           /\ accepted' = <<>>
           /\ moved' = Some([before |-> total_elements(inner.events),
                             depth |-> capacity(received_events),
                             logged |-> accepted,
                             filter |-> inner.filter])
    /\ UNCHANGED <<lastSet, lastDefault, budget, cbVars, widgetVars>>

\* TuiLogger::move_events (api::move_events and the mover thread call it)
MoveEvents ==
    /\ op' = "move_events"
    /\ IF total_elements(hot_log.events) = 0
       THEN /\ panic' = ""
            /\ UNCHANGED <<hot_select, hot_log, inner, accepted, moved>>
       ELSE LET received_events == hot_log.events
                total == total_elements(received_events)
                tli0 == [inner EXCEPT !.total_events = inner.total_events + total]
                st == MoveLoop([tli |-> tli0, hashtable |-> hot_select.hashtable,
                                panic |-> ""],
                               MoveEntries(received_events))
            IN  /\ hot_log' = [hot_log EXCEPT !.events = new_circular(inner)]
                /\ inner' = st.tli
                /\ hot_select' = [hot_select EXCEPT !.hashtable = st.hashtable]
                /\ panic' = st.panic
                /\ accepted' = <<>>
                /\ moved' = Some([before |-> total_elements(inner.events),
                                  depth |-> capacity(received_events),
                                  logged |-> accepted,
                                  filter |-> inner.filter])
    /\ UNCHANGED <<lastSet, lastDefault, budget, cbVars, widgetVars>>

\* api.rs: set_hot_buffer_depth
SetHotBufferDepth(depth) ==
    /\ op' = "set_hot_buffer_depth"
    /\ panic' = ""
    /\ inner' = [inner EXCEPT !.hot_depth = depth]
    /\ UNCHANGED <<hot_select, hot_log, accepted, moved, lastSet, lastDefault, budget, cbVars, widgetVars>>

\* mutant of set_default_level_hot: the hot default keeps its old value
set_default_level_hot_stale(hs, levelfilter) == hs

set_default_level_hot(hs, levelfilter) == [hs EXCEPT !.default = levelfilter]

\* api.rs: set_default_level
SetDefaultLevel(levelfilter) ==
    /\ op' = "set_default_level"
    /\ panic' = ""
    /\ hot_select' = set_default_level_hot(hot_select, levelfilter)
    /\ inner' = [inner EXCEPT !.default = levelfilter]
    /\ lastDefault' = levelfilter
    /\ UNCHANGED <<hot_log, accepted, moved, lastSet, budget, cbVars, widgetVars>>

\* api.rs: set_env_filter_from_string; filter is what the two builders build
\* from the string
SetEnvFilterFromString(filter) ==
    /\ op' = "set_env_filter_from_string"
    /\ panic' = ""
    /\ hot_select' = [hot_select EXCEPT !.filter = Some(filter)]
    /\ inner' = [inner EXCEPT !.filter = Some(filter)]
    /\ UNCHANGED <<hot_log, accepted, moved, lastSet, lastDefault, budget,
                   cbVars, widgetVars>>

\* api.rs: remove_env_filter
RemoveEnvFilter ==
    /\ op' = "remove_env_filter"
    /\ panic' = ""
    /\ hot_select' = [hot_select EXCEPT !.filter = None]
    /\ inner' = [inner EXCEPT !.filter = None]
    /\ UNCHANGED <<hot_log, accepted, moved, lastSet, lastDefault, budget,
                   cbVars, widgetVars>>

\* api.rs: set_level_for_target, the write to TUI_LOGGER.inner
set_level_for_target_inner(tli, target, levelfilter) ==
    [tli EXCEPT !.targets = LevelConfig_set(tli.targets, target, levelfilter)]

\* mutant of set_level_for_target_hot: the hot hash table is not written
set_level_for_target_hot_skipped(hs, target, levelfilter) == hs

\* api.rs: set_level_for_target, the write to TUI_LOGGER.hot_select
set_level_for_target_hot(hs, target, levelfilter) ==
    [hs EXCEPT !.hashtable = Put(hs.hashtable, fxhash64(target), levelfilter)]

\* api.rs: set_level_for_target
SetLevelForTarget(target, levelfilter) ==
    /\ inner.targets.generation < MaxGen
    /\ op' = "set_level_for_target"
    /\ panic' = ""
    /\ inner' = set_level_for_target_inner(inner, target, levelfilter)
    /\ hot_select' = set_level_for_target_hot(hot_select, target, levelfilter)
    /\ lastSet' = [lastSet EXCEPT ![target] = Some(levelfilter)]
    /\ UNCHANGED <<hot_log, accepted, moved, lastDefault, budget, cbVars, widgetVars>>

\* TuiWidgetState::transition(event)
Transition(event) ==
    /\ transition_recording(state, event) # None => inner.targets.generation < MaxGen
    /\ op' = "transition"
    /\ panic' = ""
    /\ state' = transition(state, event)
    /\ key' = event
    /\ LET recording == transition_recording(state, event) IN
       IF recording = None
       THEN UNCHANGED <<hot_select, inner, lastSet>>
       ELSE /\ inner' = set_level_for_target_inner(inner, recording[1][1], recording[1][2])
            /\ hot_select' = set_level_for_target_hot(hot_select, recording[1][1],
                                                      recording[1][2])
            /\ lastSet' = [lastSet EXCEPT ![recording[1][1]] = Some(recording[1][2])]
    /\ UNCHANGED <<hot_log, accepted, moved, lastDefault, budget, cbVars,
                   shown, before, keyed, area, prior>>

\* what an operation on the widget's table finds
Prior == Some([config |-> state.config, selected |-> state.selected])

\* TuiWidgetState::set_level_for_target
WidgetSetLevelForTarget(target, levelfilter) ==
    /\ budget > 0
    /\ budget' = budget - 1
    /\ op' = "widget_set_level_for_target"
    /\ panic' = ""
    /\ prior' = Prior
    /\ state' = [state EXCEPT !.config = LevelConfig_set(state.config, target, levelfilter)]
    /\ UNCHANGED <<hot_select, hot_log, inner, accepted, moved, lastSet, lastDefault,
                   cbVars, shown, before, key, keyed, area>>

\* TuiWidgetState::set_default_display_level
WidgetSetDefaultDisplayLevel(levelfilter) ==
    /\ budget > 0
    /\ budget' = budget - 1
    /\ op' = "widget_set_default_display_level"
    /\ panic' = ""
    /\ prior' = Prior
    /\ state' = [state EXCEPT !.config =
                     LevelConfig_set_default_display_level(state.config, levelfilter)]
    /\ UNCHANGED <<hot_select, hot_log, inner, accepted, moved, lastSet, lastDefault,
                   cbVars, shown, before, key, keyed, area>>

\* the effects of a target widget render: rendered is the widget state
TargetRendered(rendered, la_height) ==
    /\ state' = rendered
    /\ panic' = IF target_panics(rendered, la_height)
                THEN "index out of bounds" ELSE ""

\* Widget::render of TuiLoggerTargetWidget on an area of la_width x la_height
RenderTarget(la_width, la_height) ==
    /\ op' = IF la_width < 8 \/ la_height < 1 THEN "render_target returns"
             ELSE "render_target"
    /\ prior' = Prior
    /\ IF la_width < 8 \/ la_height < 1
       THEN state' = state /\ panic' = ""
       ELSE TargetRendered(render_target(state, inner.targets, la_width, la_height),
                           la_height)
    /\ key' = ""
    /\ UNCHANGED <<loggerVars, cbVars, shown, before, keyed, area>>

\* the effects of a render: rendered is the result of render
Rendered(rendered) ==
    /\ panic' = rendered.panic
    /\ state' = rendered.state
    /\ shown' = Some(rendered.shown)

\* Widget::render of TuiLoggerWidget on an area of la_width x la_height
Render(la_width, la_height) ==
    /\ la_width = area.width
    /\ la_height = area.height
    /\ op' = "render"
    /\ keyed' = key
    /\ key' = ""
    /\ before' = shown
    /\ Rendered(render(state, inner.events, la_width, la_height))
    /\ UNCHANGED <<loggerVars, cbVars, area, prior>>

(***************************************************************************)
(* Specification SpecCB: one CircularBuffer driven by new/push/take.       *)
(***************************************************************************)
InitCB ==
    /\ created \in 0..MaxCap
    /\ cb = CircularBuffer_new(created)
    /\ pushed = <<>>
    /\ taken = None
    /\ drained = <<>>
    /\ op = "new"
    /\ panic = ""
    /\ InitDispatcher
    /\ InitNoThreads
    /\ InitLogger(0)

CbPush(elem) ==
    /\ Len(pushed) < MaxPush
    /\ op' = "push"
    /\ IF push_panics(cb)
       THEN /\ panic' = "remainder with a divisor of zero"
            /\ UNCHANGED <<cb, pushed>>
       ELSE /\ panic' = ""
            /\ cb' = push(cb, elem)
            /\ pushed' = Append(pushed, elem)
    /\ UNCHANGED <<taken, drained, created, dispatcherVars, threadVars, loggerVars,
                   widgetVars>>

CbTake ==
    /\ op' = "take"
    /\ UNCHANGED <<created, dispatcherVars, threadVars, loggerVars, widgetVars>>
    /\ IF take_panics(cb)
       THEN /\ panic' = "remainder with a divisor of zero"
            /\ UNCHANGED <<cb, pushed, taken, drained>>
       ELSE /\ panic' = ""
            /\ taken' = Some(take_consumed(cb))
            /\ cb' = take(cb)
            /\ drained' = pushed
            /\ pushed' = <<>>

NextCB == (\E elem \in Elems : CbPush(elem)) \/ CbTake

SpecCB == InitCB /\ [][NextCB]_vars

(***************************************************************************)
(* Specification SpecLog: capture and consolidation with the built-in      *)
(* levels.                                                                 *)
(***************************************************************************)
InitCBIdle ==
    /\ created = 0
    /\ cb = CircularBuffer_new(0)
    /\ pushed = <<>>
    /\ taken = None
    /\ drained = <<>>
    /\ InitDispatcher
    /\ InitNoThreads

InitLog ==
    /\ InitCBIdle
    /\ op = "new"
    /\ panic = ""
    /\ InitLogger(MaxLog)

NextLog ==
    \/ \E target \in Targets, level \in Levels : Log(target, level)
    \/ MoveEvents
    \/ \E depth \in 0..MaxDepth : SetHotBufferDepth(depth)

SpecLog == InitLog /\ [][NextLog]_vars

(***************************************************************************)
(* Specification SpecLevel: level selection of the capture path without    *)
(* an env filter.                                                          *)
(***************************************************************************)
InitLevel ==
    /\ InitCBIdle
    /\ op = "new"
    /\ panic = ""
    /\ InitLogger(MaxLevelLog)

NextLevel ==
    \/ \E target \in Targets, level \in Levels : Log(target, level)
    \/ MoveEvents
    \/ \E levelfilter \in LevelFilters : SetDefaultLevel(levelfilter)
    \/ \E target \in Targets, levelfilter \in LevelFilters :
          SetLevelForTarget(target, levelfilter)

SpecLevel == InitLevel /\ [][NextLevel]_vars

(***************************************************************************)
(* Specification SpecEnv: the capture path with an env filter that is set  *)
(* and removed while the application logs.                                 *)
(***************************************************************************)
\* filters built from "<target>=<level>": the directive's level for the
\* target, nothing enabled for the other targets
EnvFilters ==
    {[t \in AllTargets |-> IF t = target THEN levelfilter ELSE Off] :
        target \in Targets, levelfilter \in {Warn, Info}}

EnvLevels == {Warn, Info, Debug}

InitEnv ==
    /\ InitCBIdle
    /\ op = "new"
    /\ panic = ""
    /\ InitLogger(MaxEnvLog)

NextEnv ==
    \/ \E target \in Targets, level \in EnvLevels : Log(target, level)
    \/ MoveEvents
    \/ \E levelfilter \in {Off, Info} : SetDefaultLevel(levelfilter)
    \/ \E filter \in EnvFilters : SetEnvFilterFromString(filter)
    \/ RemoveEnvFilter

SpecEnv == InitEnv /\ [][NextEnv]_vars

(***************************************************************************)
(* Specification SpecMerge: the logger's level table (set by                *)
(* set_level_for_target) merged into the widget's table by the target      *)
(* widget, the widget's table set by the application.                      *)
(***************************************************************************)
TargetWidths == {7, 8}

\* the levels the widget's table is set to: one at each end and one in
\* between
MergeLevels == {Off, Warn, Trace}

\* the levels the logger's table is set to: each is above, below or equal
\* to some level of the widget's table
OriginLevels == {Error, Debug}

InitMerge ==
    /\ InitCBIdle
    /\ op = "new"
    /\ panic = ""
    /\ InitLogger(MaxWidgetSet)

NextMerge ==
    \/ \E target \in Targets, levelfilter \in OriginLevels :
          SetLevelForTarget(target, levelfilter)
    \/ \E target \in Targets, levelfilter \in MergeLevels :
          WidgetSetLevelForTarget(target, levelfilter)
    \/ \E levelfilter \in MergeLevels : WidgetSetDefaultDisplayLevel(levelfilter)
    \/ \E la_width \in TargetWidths, la_height \in {0, MaxTargetHeight} :
          RenderTarget(la_width, la_height)

SpecMerge == InitMerge /\ [][NextMerge]_vars

(***************************************************************************)
(* Specification SpecWidget: the target widget rendered and driven by key  *)
(* events while the application sets recording levels.                     *)
(***************************************************************************)
\* the recording levels the application sets: one hidden by hide_off and
\* one in between (the key events reach the other levels)
WidgetLevels == {Off, Info}

\* the key events of the target pane; the other events (FocusKey,
\* PrevPageKey, NextPageKey, EscapeKey) write focus_selected and
\* opt_line_pointer_center only, which the target pane does not read
TargetEvents ==
    {"SpaceKey", "UpKey", "DownKey", "LeftKey", "RightKey", "PlusKey",
     "MinusKey", "HideKey"}

\* the logger after the application has set the recording level of each
\* target (set_level_for_target), and a new widget state
InitWidget ==
    /\ InitCBIdle
    /\ op = "new"
    /\ panic = ""
    /\ budget = 0
    /\ hot_log = [events |-> CircularBuffer_new(HotDepth0)]
    /\ accepted = <<>>
    /\ moved = None
    /\ lastDefault = Info
    /\ \E level_a \in WidgetLevels, level_b \in WidgetLevels :
          LET tli0 == [hot_depth |-> HotDepth0,
                       events |-> CircularBuffer_new(ColdDepth0),
                       total_events |-> 0,
                       default |-> Info,
                       targets |-> LevelConfig_new,
                       filter |-> None]
              hs0 == [filter |-> None, hashtable |-> EmptyMap, default |-> Info]
          IN  /\ inner = set_level_for_target_inner(
                             set_level_for_target_inner(tli0, "a", level_a), "b", level_b)
              /\ hot_select = set_level_for_target_hot(
                                  set_level_for_target_hot(hs0, "a", level_a), "b", level_b)
              /\ lastSet = [t \in AllTargets |->
                               IF t = "a" THEN Some(level_a)
                               ELSE IF t = "b" THEN Some(level_b) ELSE None]
    /\ state = TuiWidgetInnerState_new
    /\ shown = None
    /\ before = None
    /\ key = ""
    /\ keyed = ""
    /\ area = [width |-> min_width, height |-> 0]
    /\ prior = None

NextWidget ==
    \/ \E la_width \in TargetWidths, la_height \in 0..MaxTargetHeight :
          RenderTarget(la_width, la_height)
    \/ \E event \in TargetEvents : Transition(event)

SpecWidget == InitWidget /\ [][NextWidget]_vars

(***************************************************************************)
(* Specification SpecView: the log widget rendered and paged over a cold   *)
(* store that holds an arbitrary short history.                            *)
(***************************************************************************)
\* the records of the history: Info records of target "a"
ViewRecords == {ExtLogRecord_from("a", Info, k) : k \in LineCounts}

ViewHistories == UNION {[1..n -> ViewRecords] : n \in 0..MaxEvents}

ViewEvents == {"PrevPageKey", "NextPageKey", "EscapeKey"}

Widths == {min_width - 1, min_width}

\* the logger after the history was logged and consolidated into a cold
\* buffer of the given depth (set_buffer_depth); the terminal keeps its size
InitView ==
    /\ InitCBIdle
    /\ op = "new"
    /\ panic = ""
    /\ budget = 0
    /\ hot_log = [events |-> CircularBuffer_new(HotDepth0)]
    /\ accepted = <<>>
    /\ moved = None
    /\ lastSet = [t \in AllTargets |-> None]
    /\ lastDefault = Info
    /\ \E depth \in {ViewDepth, ColdDepth0}, history \in ViewHistories :
          LET st == MoveLoop([tli |-> [hot_depth |-> HotDepth0,
                                       events |-> CircularBuffer_new(depth),
                                       total_events |-> Len(history),
                                       default |-> Info,
                                       targets |-> LevelConfig_new,
                                       filter |-> None],
                              hashtable |-> EmptyMap,
                              panic |-> ""],
                             history)
          IN  /\ inner = st.tli
              /\ hot_select = [filter |-> None, hashtable |-> st.hashtable,
                               default |-> Info]
    /\ state = TuiWidgetInnerState_new
    /\ shown = None
    /\ before = None
    /\ key = ""
    /\ keyed = ""
    /\ area \in [width : Widths, height : 0..MaxHeight]
    /\ prior = None

NextView ==
    \/ \E la_width \in Widths, la_height \in 0..MaxHeight : Render(la_width, la_height)
    \/ \E event \in ViewEvents : Transition(event)

SpecView == InitView /\ [][NextView]_vars

(***************************************************************************)
(* Properties of the circular buffer (SpecCB)                              *)
(***************************************************************************)
\* the last k elements of s
LastK(s, k) == SubSeq(s, Len(s) - k + 1, Len(s))

\* C3: for a buffer of capacity C, after N completed pushes since creation
\* or since the last take(), len() = min(N, C), total_elements() = N and
\* has_wrapped() = (N > C).
C3_LenTotalWrapped ==
    LET N == Len(pushed)
        C == capacity(cb) IN
    /\ len(cb) = Min(N, C)
    /\ total_elements(cb) = N
    /\ has_wrapped(cb) = (N > C)

\* C3 witness: pushes went on after the buffer was full (after a take, too)
C3_Witness ==
    /\ op = "push" /\ panic = ""
    /\ capacity(cb) >= 2
    /\ Len(pushed) > capacity(cb) + 1
    /\ taken # None

C5_IterOrder ==
    LET N == Len(pushed)
        C == capacity(cb) IN
    /\ iter(cb) = LastK(pushed, Min(N, C))
    /\ rev_iter(cb) = Reverse(LastK(pushed, Min(N, C)))

\* C5 witness: a wrapped buffer whose storage order differs from push order
C5_Witness ==
    /\ op = "push" /\ panic = ""
    /\ has_wrapped(cb)
    /\ iter(cb) # cb.buffer
    /\ rev_iter(cb) # iter(cb)

\* C6: take() returns the retained elements oldest first and leaves the
\* buffer empty (len() = 0, total_elements() = 0, capacity preserved); a
\* push after it followed by iter() yields exactly the new element; a second
\* take() on the emptied buffer returns an empty sequence.
C6_TakeDrains ==
    /\ op = "take" =>
          /\ panic = ""
          /\ taken = Some(LastK(drained, Min(Len(drained), created)))
          /\ len(cb) = 0
          /\ total_elements(cb) = 0
          /\ capacity(cb) = created
          /\ (drained = <<>> => taken = Some(<<>>))
    /\ (op = "push" /\ taken # None /\ Len(pushed) = 1) =>
          (panic = "" /\ iter(cb) = pushed)

\* C6 for capacities of at least 1 (where take() does not divide by zero)
C6_TakeDrainsNonZero == created >= 1 => C6_TakeDrains

\* C7: pushing into a zero-capacity buffer does not panic, and afterwards
\* iter(), rev_iter() and element_at_index(i) yield no elements.
C7_ZeroCapacityPush ==
    (created = 0 /\ op = "push") =>
        /\ panic = ""
        /\ iter(cb) = <<>>
        /\ rev_iter(cb) = <<>>
        /\ \A i \in 0..(MaxPush + 2) : element_at_index(cb, i) = None

(***************************************************************************)
(* Properties of the logger core (SpecLog, SpecLevel)                      *)
(***************************************************************************)
\* the records the cold store gained by the last move_events() that swapped
\* a hot buffer of depth D holding `total` pushes
C1_Gained(D) == LastK(iter(inner.events), D + 1)
C1_IsOverrun(r) == r.target = OverrunTarget
C1_IsOriginal(r) == r.target # OverrunTarget

\* C1: when D + K enabled records (K > 0) were logged into an empty hot
\* buffer of depth D with no move in between, one move_events() makes the
\* cold store gain exactly D + 1 records: the D most recently logged
\* originals in log order and exactly one Warn record of target "TuiLogger"
\* reporting K events lost, D recorded out of D + K.
C1_OverflowAccounting ==
    (op = "move_events" /\ panic = "" /\ moved # None) =>
        LET m == moved[1]
            D == m.depth
            K == Len(m.logged) - D
        IN  K > 0 =>
              /\ total_elements(inner.events) = m.before + D + 1
              /\ D + 1 <= capacity(inner.events) =>
                    /\ SelectSeq(C1_Gained(D), C1_IsOriginal) = LastK(m.logged, D)
                    /\ SelectSeq(C1_Gained(D), C1_IsOverrun) =
                          <<[level |-> Warn, target |-> "TuiLogger",
                             msg |-> <<"lost", K, D, D + K>>]>>

\* C1 witness: a hot buffer of depth 2 overflowed by one record, the two
\* retained records being different, has been consolidated
C1_Witness ==
    /\ op = "move_events" /\ panic = "" /\ moved # None
    /\ moved[1].depth = 2
    /\ Len(moved[1].logged) = 3
    /\ moved[1].logged[2] # moved[1].logged[3]
    /\ len(inner.events) >= 3

\* the threshold of C2: the level of the last set_level_for_target for the
\* target, else the level of the last set_default_level
C2_Threshold(target) ==
    IF lastSet[target] # None THEN lastSet[target][1] ELSE lastDefault

ViewRetained == iter(inner.events)

ViewAllFormatTo(n) ==
    \A i \in 1..Len(ViewRetained) : Len(format(0, ViewRetained[i])) = n

\* a render of the log widget on a viewport of the given height completed
ViewRendered(height) ==
    /\ op = "render" /\ panic = "" /\ shown # None
    /\ area.width >= min_width /\ area.height = height

\* the events shown by a view, top to bottom
ViewEventsOf(v) == [i \in 1..Len(v.lines) |-> v.lines[i].line.event]

\* the lines shown by a view, top to bottom, without their pointers
ViewLinesOf(v) == [i \in 1..Len(v.lines) |-> v.lines[i].line]

ViewShiftedBy(was, now, d) ==
    /\ Len(now) = Len(was)
    /\ \A i \in 1..Len(was) : now[i] = was[i] + d

\* C8: with only single-line events and a 3-line viewport, the
\* bottom-follow render shows the three newest events; after PrevPageKey
\* the next render shows the window shifted by exactly one event toward
\* older events whenever an older event exists beyond the window; after
\* NextPageKey it shows the window shifted by exactly one event toward
\* newer events, and unchanged if the window already ended at the newest
\* event.
C8_SingleLinePaging ==
    (ViewRendered(3) /\ ViewAllFormatTo(1) /\ len(inner.events) >= 3) =>
        LET newest == last_index(inner.events)[1]
            oldest == first_index(inner.events)[1]
            now == ViewEventsOf(shown[1])
        IN  /\ shown[1].center = None => now = <<newest - 2, newest - 1, newest>>
            /\ (before # None /\ before[1].lines # <<>>) =>
                  LET was == ViewEventsOf(before[1]) IN
                  /\ (keyed = "PrevPageKey" /\ was[1] > oldest) =>
                        ViewShiftedBy(was, now, 0 - 1)
                  /\ (keyed = "NextPageKey" /\ was[Len(was)] < newest) =>
                        ViewShiftedBy(was, now, 1)
                  /\ (keyed = "NextPageKey" /\ was[Len(was)] = newest) =>
                        shown[1].lines = before[1].lines

\* the line above line l, in a history whose events all format to n lines
ViewLineAbove(l, n) ==
    IF l.row > 0 THEN [event |-> l.event, row |-> l.row - 1]
    ELSE [event |-> l.event - 1, row |-> n - 1]

\* C9: with events that each format to 4 lines and a 3-line viewport, the
\* bottom-follow render shows sublines 1,2,3 of the newest event, and each
\* PrevPageKey followed by a render scrolls the view up by exactly one line,
\* the lines staying in top-to-bottom subline order across event
\* boundaries.
C9_LongWrapPaging ==
    (ViewRendered(3) /\ ViewAllFormatTo(4) /\ len(inner.events) >= 1) =>
        LET newest == last_index(inner.events)[1]
            oldest == first_index(inner.events)[1]
            now == ViewLinesOf(shown[1])
        IN  /\ shown[1].center = None =>
                  now = <<[event |-> newest, row |-> 1],
                          [event |-> newest, row |-> 2],
                          [event |-> newest, row |-> 3]>>
            /\ (before # None /\ Len(before[1].lines) = 3 /\ keyed = "PrevPageKey") =>
                  LET was == ViewLinesOf(before[1]) IN
                  (was[1].row > 0 \/ was[1].event > oldest) =>
                      now = <<ViewLineAbove(was[1], 4), was[1], was[2]>>

\* the number of lines a view of all displayable retained events shows
\* above the line lp points to
RECURSIVE ViewLinesOlder(_, _)
ViewLinesOlder(lp, i) ==
    IF i > Len(ViewRetained) THEN 0
    ELSE LET evt_index == first_index(inner.events)[1] + i - 1
             evt == ViewRetained[i]
             n == IF skip(state, evt) THEN 0 ELSE Len(format(evt_index, evt))
         IN  (IF evt_index < lp.event_index THEN n
              ELSE IF evt_index = lp.event_index THEN Min(n, lp.subline)
              ELSE 0) + ViewLinesOlder(lp, i + 1)

\* the case of C10: a bottom-follow render, PrevPageKey, which anchors the
\* view at the pointer of the top visible line, and the next render
C10_RoundTrip ==
    /\ op = "render" /\ panic = "" /\ shown # None /\ before # None
    /\ keyed = "PrevPageKey"
    /\ before[1].center = None
    /\ before[1].lines # <<>>
    /\ shown[1].center = Some(before[1].lines[1].lp)

MergeDone == op = "render_target" /\ prior # None

\* C11: after A.merge(B), for every target present in B, A's level for it
\* is no more verbose than B's; and a level A held before the merge that
\* was no more verbose than B's is preserved.
C11_MergeMonotone ==
    MergeDone =>
        \A t \in DOMAIN inner.targets.config :
            /\ LevelConfig_get(state.config, t) # None
            /\ state.config.config[t] <= inner.targets.config[t]
            /\ (/\ LevelConfig_get(prior[1].config, t) # None
                /\ prior[1].config.config[t] <= inner.targets.config[t])
               => state.config.config[t] = prior[1].config.config[t]

\* C11 witness: a merge that lowered the level of one target and preserved
\* the less verbose level of another one
C11_Witness ==
    /\ MergeDone
    /\ \E t1, t2 \in DOMAIN inner.targets.config :
          /\ LevelConfig_get(prior[1].config, t1) # None
          /\ prior[1].config.config[t1] > inner.targets.config[t1]
          /\ state.config.config[t1] <= inner.targets.config[t1]
          /\ LevelConfig_get(prior[1].config, t2) # None
          /\ prior[1].config.config[t2] < inner.targets.config[t2]
          /\ state.config.config[t2] = prior[1].config.config[t2]

\* C12: a second merge(origin) with no change of the origin (and none of
\* the merging table) since the first one leaves the contents and the
\* generation of the merging table as they were after the first.
C12_MergeIdempotent ==
    [][(op = "render_target" /\ op' = "render_target") =>
          /\ state'.config.config = state.config.config
          /\ state'.config.generation = state.config.generation
      ]_vars

\* C12 witness: a table with two targets has been merged into a table that
\* has a default display level, a less verbose entry and the generation of
\* the merged table, and has left it as it was
C12_Witness ==
    /\ MergeDone
    /\ prior[1].config = state.config
    /\ state.config.generation = inner.targets.generation
    /\ Cardinality(DOMAIN inner.targets.config) = 2
    /\ state.config.default_display_level # None
    /\ \E t \in DOMAIN inner.targets.config :
          state.config.config[t] < inner.targets.config[t]

\* C13: set(target, level) with the level the target already has changes
\* neither the table nor the generation; with a new target or another level
\* it changes that entry only and increases the generation by exactly one.
C13_SetIdempotent ==
    \A target \in Targets, level \in LevelFilters :
        LET after == LevelConfig_set(state.config, target, level) IN
        IF LevelConfig_get(state.config, target) = Some(level)
        THEN after = state.config
        ELSE /\ after.config = Put(state.config.config, target, level)
             /\ after.generation = state.config.generation + 1
             /\ after.origin_generation = state.config.origin_generation
             /\ after.default_display_level = state.config.default_display_level

\* C13 witness: the widget's table was set to a level it already had, and
\* holds another target that could be set to a new level
C13_Witness ==
    /\ op = "widget_set_level_for_target"
    /\ prior # None /\ prior[1].config = state.config
    /\ Cardinality(DOMAIN state.config.config) = 2
    /\ state.config.generation >= 2

(***************************************************************************)
(* Properties of the env filter (SpecEnv)                                  *)
(***************************************************************************)
\* the step is log(record) for a record of the target at the level, and the
\* record is captured (pushed into the hot buffer)
EnvCaptured(target, level) ==
    /\ Log(target, level)
    /\ panic' = ""
    /\ accepted' = Append(accepted, ExtLogRecord_from(target, level, 1))
    /\ iter(hot_log'.events) # <<>>
    /\ iter(hot_log'.events)[len(hot_log'.events)] = ExtLogRecord_from(target, level, 1)

\* the step is log(record) for a record of the target at the level, and the
\* record is suppressed
EnvSuppressed(target, level) ==
    /\ Log(target, level)
    /\ accepted' = accepted
    /\ hot_log' = hot_log

\* scenario B, first part: the global default is Off, the filter grants
\* Info to the target, which has not been seen or set before
EnvGranted(target) ==
    /\ hot_select.default = Off
    /\ hot_select.filter # None
    /\ hot_select.filter[1][target] = Info
    /\ LevelConfig_get(inner.targets, target) = None
    /\ fxhash64(target) \notin DOMAIN hot_select.hashtable

\* scenario B, the consolidation: a Warn and an Info record of the target
\* were the first records to be consolidated, under a filter granting Info
\* to the target (the variables are those of the state after the step)
EnvConsolidated(target, m) ==
    /\ m # None
    /\ m[1].before = 0
    /\ m[1].filter # None
    /\ m[1].filter[1][target] = Info
    /\ m[1].logged = <<ExtLogRecord_from(target, Warn, 1),
                       ExtLogRecord_from(target, Info, 1)>>

\* scenario B, second part: the filter has just been removed, the global
\* default is Off
EnvRemoved(target) ==
    /\ op = "remove_env_filter"
    /\ hot_select.filter = None
    /\ hot_select.default = Off
    /\ EnvConsolidated(target, moved)

\* scenario B up to the removal of the filter: the Warn and the Info record
\* are captured and are in the cold store after the consolidation
EnvScenarioB(target) ==
    /\ \A level \in {Warn, Info} :
          (EnvGranted(target) /\ Log(target, level)) => EnvCaptured(target, level)
    /\ (op' = "move_events" /\ EnvConsolidated(target, moved')) =>
          (panic' = "" /\ iter(inner'.events) = moved'[1].logged)

\* C14 as stated: in scenario B the Warn and the Info record are captured
\* and appear after consolidation; after the filter is removed, a further
\* Info record logged on the target is suppressed.
C14_ScenarioB ==
    [][\A target \in Targets :
          /\ EnvScenarioB(target)
          /\ (EnvRemoved(target) /\ Log(target, Info)) => EnvSuppressed(target, Info)
      ]_vars

\* C14 amended: in scenario B the Warn and the Info record are captured and
\* appear after consolidation; after the filter is removed, a further Info
\* record logged on the target is still captured.
C14_ScenarioBCaptured ==
    [][\A target \in Targets :
          /\ EnvScenarioB(target)
          /\ (EnvRemoved(target) /\ Log(target, Info)) => EnvCaptured(target, Info)
      ]_vars

\* C14 witness: scenario B has run to its end: the Info record logged with
\* no filter and the global default Off is in the hot buffer
C14_Witness ==
    /\ op = "log"
    /\ hot_select.filter = None
    /\ hot_select.default = Off
    /\ \E target \in Targets :
          /\ EnvConsolidated(target, moved)
          /\ iter(inner.events) = moved[1].logged
          /\ accepted = <<ExtLogRecord_from(target, Info, 1)>>

\* the most verbose level the filter enables for the target
EnvBoundary(filter, target) ==
    LET on == {Off} \cup {level \in Levels : Filter_enabled(filter, target, level)}
    IN  CHOOSE boundary \in on : \A level \in on : level <= boundary

\* the records of the target in the hot buffer, oldest first
EnvHotRecords(target) ==
    SelectSeq(iter(hot_log.events), LAMBDA r : r.target = target)

\* the boundary is stored for the target in the cold level table and in the
\* hot hash table
EnvCached(tli, hs, target, boundary) ==
    /\ LevelConfig_get(tli.targets, target) = Some(boundary)
    /\ fxhash64(target) \in DOMAIN hs.hashtable
    /\ hs.hashtable[fxhash64(target)] = boundary

\* C15: when move_events() consolidates a record of a previously unseen
\* target that the env filter accepts, the most verbose level the filter
\* enables for the target is stored in the cold level table and in the hot
\* hash table; with the boundary stored, no filter and the global default
\* Off, a record of the target at or above the boundary is captured, and
\* move_events() puts the records of the hot buffer into the cold store.
C15_BoundaryCached ==
    [][/\ \A target \in Targets :
            (/\ op' = "move_events"
             /\ inner.filter # None
             /\ LevelConfig_get(inner.targets, target) = None
             /\ EnvHotRecords(target) # <<>>
             /\ Filter_enabled(inner.filter[1], target, EnvHotRecords(target)[1].level))
            => EnvCached(inner', hot_select', target, EnvBoundary(inner.filter[1], target))
       /\ \A target \in Targets, level \in Levels :
            (/\ hot_select.filter = None
             /\ hot_select.default = Off
             /\ LevelConfig_get(inner.targets, target) # None
             /\ EnvCached(inner, hot_select, target, inner.targets.config[target])
             /\ level <= inner.targets.config[target]
             /\ Log(target, level))
            => EnvCaptured(target, level)
       /\ (op' = "move_events" /\ panic' = "") =>
            \A i \in 1..len(hot_log.events) :
                \E j \in 1..len(inner'.events) :
                    iter(inner'.events)[j] = iter(hot_log.events)[i]
      ]_vars

\* C15 witness: a record at the boundary Warn has been captured with no
\* filter and the global default Off, for a target whose boundary the
\* consolidation cached
C15_Witness ==
    /\ op = "log"
    /\ hot_select.filter = None
    /\ hot_select.default = Off
    /\ moved # None /\ moved[1].filter # None
    /\ \E target \in Targets :
          /\ moved[1].filter[1][target] = Warn
          /\ EnvCached(inner, hot_select, target, Warn)
          /\ accepted = <<ExtLogRecord_from(target, Warn, 1)>>

(***************************************************************************)
(* Properties of the hot buffer depth (SpecLog)                            *)
(***************************************************************************)
\* C16: for every hot buffer depth set through set_hot_buffer_depth that
\* has taken effect (0 and 1 included), a log call completes without
\* panicking.
C16_LogNeverPanics == op = "log" => panic = ""

C18_InvalidPagingNoOp ==
    [][op' = "transition" =>
          /\ panic' = ""
          /\ (key' = "PrevPageKey" /\ state.opt_line_pointer_prev_page = None)
                => state' = state
          /\ (key' = "NextPageKey" /\ state.opt_line_pointer_next_page = None)
                => state' = state
      ]_vars

\* C19: UpKey decrements the selected index iff the target pane is not
\* hidden and selected > 0, DownKey increments it iff the pane is not hidden
\* and selected + 1 < nr_items, both change nothing otherwise; and
\* selected < max(nr_items, 1) in every state reached by transitions and
\* renders of the target widget.
C19_SelectionClamped ==
    [][/\ (op' = "transition" /\ key' = "UpKey") =>
             state' = IF ~state.hide_target /\ state.selected > 0
                      THEN [state EXCEPT !.selected = state.selected - 1]
                      ELSE state
       /\ (op' = "transition" /\ key' = "DownKey") =>
             state' = IF ~state.hide_target /\ state.selected + 1 < state.nr_items
                      THEN [state EXCEPT !.selected = state.selected + 1]
                      ELSE state
       /\ state'.selected < Max(state'.nr_items, 1)
      ]_vars

\* C19 witness: the selection was moved down to the last of two targets,
\* then one of the targets got hidden and the render clamped the selection
C19_Witness ==
    /\ op = "render_target"
    /\ prior # None
    /\ prior[1].selected = 1
    /\ state.hide_off
    /\ Cardinality(DOMAIN state.config.config) = 2
    /\ state.nr_items = 1
    /\ state.selected = 0
    /\ state.opt_selected_target = Some("a")
    /\ state.config.config["b"] = Off

\* the display table of the widget differs from cfg at most in the entry
\* of the target, which is the level
DisplaySet(cfg, target, level) ==
    /\ state'.config.config = Put(cfg.config, target, level)
    /\ state'.config.default_display_level = cfg.default_display_level

\* the recording tables of the logger differ from the ones before the step
\* at most in the entries of the target, which are the level
RecordingSet(target, level) ==
    /\ inner'.targets.config = Put(inner.targets.config, target, level)
    /\ hot_select'.hashtable = Put(hot_select.hashtable, fxhash64(target), level)
    /\ inner' = [inner EXCEPT !.targets = inner'.targets]
    /\ hot_select' = [hot_select EXCEPT !.hashtable = hot_select'.hashtable]

\* C20: LeftKey/RightKey change only the widget's display level of the
\* selected target (to the next less/more verbose level cached by the
\* render) and leave the logger's cold level table and hot hash table
\* unchanged; PlusKey/MinusKey change the logger's recording level of the
\* selected target in the cold level table and in the hot hash table and
\* leave the widget's display table unchanged.
C20_DisplayRecordingIndependent ==
    [][op' = "transition" =>
          LET sel == state.opt_selected_target
              vis == IF key' = "LeftKey" THEN state.opt_selected_visibility_less
                     ELSE state.opt_selected_visibility_more
              rec == IF key' = "MinusKey" THEN state.opt_selected_recording_less
                     ELSE state.opt_selected_recording_more
          IN  /\ key' \in {"LeftKey", "RightKey"} =>
                    /\ inner' = inner
                    /\ hot_select' = hot_select
                    /\ IF sel # None /\ vis # None
                       THEN DisplaySet(state.config, sel[1], vis[1])
                       ELSE state'.config = state.config
              /\ key' \in {"PlusKey", "MinusKey"} =>
                    /\ state'.config = state.config
                    /\ IF sel # None /\ rec # None
                       THEN RecordingSet(sel[1], rec[1])
                       ELSE inner' = inner /\ hot_select' = hot_select
      ]_vars

\* C20 witness: LeftKey has lowered the display level of a target below
\* its recording level, which is in both tables of the logger, after
\* PlusKey or MinusKey had changed a recording level
C20_Witness ==
    /\ op = "transition"
    /\ key = "LeftKey"
    /\ state.opt_selected_target = None
    /\ state.opt_selected_visibility_less = None
    /\ state.opt_selected_visibility_more # None
    /\ state.config.generation = inner.targets.generation + 1
    /\ \E t \in DOMAIN state.config.config :
          /\ state.config.config[t] < inner.targets.config[t]
          /\ hot_select.hashtable[fxhash64(t)] = inner.targets.config[t]
    /\ inner.targets.generation > Cardinality(Targets)

(***************************************************************************)
(* Specification SpecKeys: the log widget and the target widget rendered   *)
(* on a terminal that is resized, and driven by every key event.           *)
(***************************************************************************)
MaxKeyEvents == 2

\* the records of the history: one line of target "a", two lines of "b"
KeyRecords == {ExtLogRecord_from("a", Info, 1), ExtLogRecord_from("b", Info, 2)}

KeyHistories == UNION {[1..n -> KeyRecords] : n \in 0..MaxKeyEvents}

\* the areas the terminal is resized to: too narrow, of height 0, and one
\* that has room for two lines
KeyAreas ==
    {[width |-> min_width - 1, height |-> 2],
     [width |-> min_width, height |-> 0],
     [width |-> min_width, height |-> 2]}

\* the logger after the history was logged and consolidated into a cold
\* buffer of the given depth (set_buffer_depth)
InitCold(depth, history) ==
    /\ InitCBIdle
    /\ op = "new"
    /\ panic = ""
    /\ budget = 0
    /\ hot_log = [events |-> CircularBuffer_new(HotDepth0)]
    /\ accepted = <<>>
    /\ moved = None
    /\ lastSet = [t \in AllTargets |-> None]
    /\ lastDefault = Info
    /\ LET st == MoveLoop([tli |-> [hot_depth |-> HotDepth0,
                                    events |-> CircularBuffer_new(depth),
                                    total_events |-> Len(history),
                                    default |-> Info,
                                    targets |-> LevelConfig_new,
                                    filter |-> None],
                           hashtable |-> EmptyMap,
                           panic |-> ""],
                          history)
       IN  /\ inner = st.tli
           /\ hot_select = [filter |-> None, hashtable |-> st.hashtable,
                            default |-> Info]
    /\ shown = None
    /\ before = None
    /\ key = ""
    /\ keyed = ""
    /\ prior = None

\* the widget state is new, or the target widget was rendered once
InitKeys ==
    /\ \E history \in KeyHistories : InitCold(ColdDepth0, history)
    /\ state \in {TuiWidgetInnerState_new,
                  render_target(TuiWidgetInnerState_new, inner.targets,
                                8, MaxTargetHeight)}
    /\ area = [width |-> min_width, height |-> 2]

\* Widget::render of TuiLoggerWidget after the terminal was resized to an
\* area of la_width x la_height
RenderResized(la_width, la_height) ==
    /\ op' = "render"
    /\ area' = [width |-> la_width, height |-> la_height]
    /\ key' = ""
    /\ Rendered(render(state, inner.events, la_width, la_height))
    /\ UNCHANGED <<loggerVars, cbVars, before, keyed, prior>>

NextKeys ==
    \/ \E a \in KeyAreas : RenderResized(a.width, a.height)
    \/ \E event \in TuiWidgetEvent : Transition(event)

SpecKeys == InitKeys /\ [][NextKeys]_vars

(***************************************************************************)
(* Properties of the log widget under resizes and key events (SpecKeys)    *)
(***************************************************************************)
\* C21: a render of the log widget on a viewport narrower than the
\* formatter's minimum width, or of height 0, produces no lines, does not
\* fail, and leaves the widget state (the scroll anchor and the cached
\* prev/next page pointers included) unchanged.
C21_DegenerateViewport ==
    [][(op' = "render" /\ (area'.width < min_width \/ area'.height < 1)) =>
          /\ panic' = ""
          /\ shown'[1].lines = <<>>
          /\ state' = state
      ]_vars

\* C21 witness: a render on a degenerate viewport found the anchor and both
\* cached pointers set by earlier renders and paging
C21_Witness ==
    /\ op = "render" /\ panic = ""
    /\ area.width < min_width \/ area.height < 1
    /\ shown[1].lines = <<>>
    /\ state.opt_line_pointer_center # None
    /\ state.opt_line_pointer_prev_page # None
    /\ state.opt_line_pointer_next_page # None

\* the key events other than the paging keys
KeysNotPaging == TuiWidgetEvent \ {"PrevPageKey", "NextPageKey", "EscapeKey"}

\* the retained events the display filter lets pass, by absolute index
KeysDisplayed(st) ==
    {i \in 0..(inner.total_events + 1) :
        /\ element_at_index(inner.events, i) # None
        /\ ~skip(st, element_at_index(inner.events, i)[1])}

\* a view in bottom-follow mode: drawn from the top row, and if an event
\* passes the filter, the last line drawn is the last line of the newest
\* such event
KeysBottomFollow(v, st) ==
    /\ v.center = None
    /\ v.offset = 0
    /\ KeysDisplayed(st) # {} =>
          LET newest == CHOOSE i \in KeysDisplayed(st) :
                            \A j \in KeysDisplayed(st) : j <= i
              n == Len(format(newest, element_at_index(inner.events, newest)[1]))
          IN  /\ v.lines # <<>>
              /\ v.lines[Len(v.lines)].line = [event |-> newest, row |-> n - 1]

\* C29: a render and the key events Space, Hide, Focus, Up, Down, Left,
\* Right, Plus and Minus leave the scroll anchor unchanged; PrevPageKey and
\* NextPageKey replace it with the cached prev/next page pointer; EscapeKey
\* sets it to None, after which the next render is in bottom-follow mode.
C29_AnchorByPagingOnly ==
    [][/\ (op' = "render" \/ (op' = "transition" /\ key' \in KeysNotPaging)) =>
             state'.opt_line_pointer_center = state.opt_line_pointer_center
       /\ (op' = "transition" /\ key' = "PrevPageKey") =>
             state'.opt_line_pointer_center = state.opt_line_pointer_prev_page
       /\ (op' = "transition" /\ key' = "NextPageKey") =>
             state'.opt_line_pointer_center = state.opt_line_pointer_next_page
       /\ (op' = "transition" /\ key' = "EscapeKey") =>
             state'.opt_line_pointer_center = None
       /\ (op' = "render" /\ key = "EscapeKey"
             /\ area'.width >= min_width /\ area'.height >= 1) =>
             /\ panic' = ""
             /\ KeysBottomFollow(shown'[1], state')
      ]_vars

\* C29 witness: EscapeKey has reset an anchor under which the last render
\* drew lines, after keys other than the paging keys had acted
C29_Witness ==
    /\ op = "transition" /\ key = "EscapeKey"
    /\ state.opt_line_pointer_center = None
    /\ shown # None /\ shown[1].center # None /\ shown[1].lines # <<>>
    /\ state.focus_selected /\ state.hide_off /\ state.hide_target
    /\ state.opt_line_pointer_prev_page # None
    /\ state.opt_line_pointer_next_page # None
    /\ inner.targets.generation > Cardinality(DOMAIN inner.targets.config)

(***************************************************************************)
(* Specification SpecMover: the logger after init_logger; the thread       *)
(* spawned by init_logger is the only caller of move_events.               *)
(***************************************************************************)
MaxMoverLog == 3

MaxColdDepth == 2

\* api.rs: set_buffer_depth
SetBufferDepth(depth) ==
    /\ op' = "set_buffer_depth"
    /\ panic' = ""
    /\ inner' = [inner EXCEPT !.events = CircularBuffer_new(depth)]
    /\ UNCHANGED <<hot_select, hot_log, accepted, moved, lastSet, lastDefault, budget,
                   cbVars, widgetVars>>

\* api.rs: init_logger has returned Ok: the thread is spawned and its
\* JoinHandle is stored in hot_log.mover_thread
InitMover ==
    /\ InitCBIdle
    /\ op = "init_logger"
    /\ panic = ""
    /\ budget = MaxMoverLog
    /\ hot_select = [filter |-> None, hashtable |-> EmptyMap, default |-> Info]
    /\ hot_log = [events |-> CircularBuffer_new(HotDepth0),
                  mover_thread |-> Some("running")]
    /\ inner = [hot_depth |-> HotDepth0,
                events |-> CircularBuffer_new(ColdDepth0),
                total_events |-> 0,
                default |-> Info,
                targets |-> LevelConfig_new,
                filter |-> None]
    /\ accepted = <<>>
    /\ moved = None
    /\ lastSet = [t \in AllTargets |-> None]
    /\ lastDefault = Info
    /\ state = TuiWidgetInnerState_new
    /\ shown = None
    /\ before = None
    /\ key = ""
    /\ keyed = ""
    /\ area = [width |-> min_width, height |-> 0]
    /\ prior = None

\* the thread spawned by init_logger, one turn of its loop: park_timeout
\* has returned (after 10 ms or an unpark) and TUI_LOGGER.move_events() is
\* called; a panic of move_events ends the thread
Mover ==
    /\ hot_log.mover_thread = Some("running")
    /\ op' = "mover"
    /\ IF total_elements(hot_log.events) = 0
       THEN /\ panic' = ""
            /\ UNCHANGED <<hot_select, hot_log, inner, accepted, moved>>
       ELSE LET received_events == hot_log.events
                total == total_elements(received_events)
                tli0 == [inner EXCEPT !.total_events = inner.total_events + total]
                st == MoveLoop([tli |-> tli0, hashtable |-> hot_select.hashtable,
                                panic |-> ""],
                               MoveEntries(received_events))
            IN  /\ hot_log' = [hot_log EXCEPT
                                  !.events = new_circular(inner),
                                  !.mover_thread = IF st.panic # "" THEN Some("finished")
                                                   ELSE Some("running")]
                /\ inner' = st.tli
                /\ hot_select' = [hot_select EXCEPT !.hashtable = st.hashtable]
                /\ panic' = st.panic
                /\ accepted' = <<>>
                /\ moved' = Some([before |-> total_elements(inner.events),
                                  depth |-> capacity(received_events),
                                  logged |-> accepted,
                                  filter |-> inner.filter])
    /\ UNCHANGED <<lastSet, lastDefault, budget, cbVars, widgetVars>>

NextMover ==
    \/ \E target \in Targets, level \in {Info, Debug} : Log(target, level)
    \/ \E depth \in 0..MaxColdDepth : SetBufferDepth(depth)
    \/ Mover

\* the loop of the thread never blocks for more than its timeout, so under
\* a fair scheduler it takes its turns again and again
SpecMover == InitMover /\ [][NextMover]_vars /\ WF_vars(Mover)

\* the thread has consolidated the records the hot buffer held
MoverConsolidated ==
    /\ op = "mover" /\ panic = ""
    /\ moved # None /\ moved[1].logged # <<>>
    /\ accepted = <<>>
    /\ total_elements(hot_log.events) = 0

\* C22: after init_logger has started the mover task, under fair scheduling
\* every record accepted into the hot buffer is eventually pushed into the
\* cold store or counted in the lost count of an overflow record, without
\* any call of move_events() by the application: whenever the hot buffer
\* holds accepted records, a later turn of the mover consolidates them.
C22_EventualConsolidation == (accepted # <<>>) ~> MoverConsolidated

(***************************************************************************)
(* The capture level shown and the capture level applied (SpecLevel)       *)
(***************************************************************************)
\* C23: with no env filter configured, in every state reachable by log,
\* move_events, set_default_level and set_level_for_target, for every target
\* t of the cold level table (the table the target selector displays as
\* capturing levels) and every level l, enabled(t, l) = (l <= cold_table[t]).
C23_ShownIsApplied ==
    hot_select.filter = None =>
        \A t \in DOMAIN inner.targets.config :
            \A l \in Levels :
                enabled(hot_select, t, l) = (l <= inner.targets.config[t])

(***************************************************************************)
(* Specification SpecDispatch: one Dispatcher driven by add_listener,      *)
(* dispatch and clear.                                                     *)
(***************************************************************************)
MaxListeners == 3

\* the key events of tests::test_dispatch
DispatchEvents == {"Left", "Down", "Up"}

\* the listeners: the ones of tests::make_queue (true for Left, true for
\* Down) and one that returns false for every event
Listeners == {{"Left"}, {"Down"}, {}}

InitDispatch ==
    /\ InitCBIdle
    /\ op = "new"
    /\ panic = ""
    /\ InitLogger(0)

AddListener(f) ==
    /\ Len(dispatcher.map) < MaxListeners
    /\ op' = "add_listener"
    /\ panic' = ""
    /\ dispatcher' = add_listener(dispatcher, f)
    /\ UNCHANGED <<dispatched, cb, pushed, taken, drained, created, threadVars,
                   loggerVars, widgetVars>>

Dispatch(ev) ==
    /\ op' = "dispatch"
    /\ panic' = ""
    /\ LET looped == dispatch_loop(dispatcher.map, ev, <<>>, FALSE) IN
       /\ dispatcher' = dispatch(dispatcher, looped)
       /\ dispatched' = Some([ev |-> ev, chain |-> dispatcher.map,
                              called |-> looped.called,
                              processed |-> looped.processed])
    /\ UNCHANGED <<cb, pushed, taken, drained, created, threadVars,
                   loggerVars, widgetVars>>

DispatcherClear ==
    /\ op' = "clear"
    /\ panic' = ""
    /\ dispatcher' = clear(dispatcher)
    /\ UNCHANGED <<dispatched, cb, pushed, taken, drained, created, threadVars,
                   loggerVars, widgetVars>>

NextDispatch ==
    \/ \E f \in Listeners : AddListener(f)
    \/ \E ev \in DispatchEvents : Dispatch(ev)
    \/ DispatcherClear

SpecDispatch == InitDispatch /\ [][NextDispatch]_vars

\* the positions 1..n in call order
DispatchFirst(n) == [i \in 1..n |-> i]

\* C24: dispatch(ev) calls the listeners in the order they were added until
\* the first one returns true; in that case no later listener is called, the
\* whole chain is emptied and dispatch returns true; if no listener returns
\* true (or the chain is empty) the chain is left unchanged and dispatch
\* returns false.
C24_OneShot ==
    [][op' = "dispatch" =>
          LET d == dispatched'[1]
              hits == {i \in 1..Len(dispatcher.map) : d.ev \in dispatcher.map[i]}
          IN  IF hits = {}
              THEN /\ d.called = DispatchFirst(Len(dispatcher.map))
                   /\ d.processed = FALSE
                   /\ dispatcher'.map = dispatcher.map
              ELSE /\ d.called = DispatchFirst(CHOOSE i \in hits : \A j \in hits : i <= j)
                   /\ d.processed = TRUE
                   /\ dispatcher'.map = <<>>
      ]_vars

\* C24 witness: the second of three listeners returned true for the event,
\* a later listener would have returned true as well, and the chain is empty
C24_Witness ==
    /\ op = "dispatch"
    /\ dispatched # None
    /\ Len(dispatched[1].chain) = 3
    /\ dispatched[1].called = <<1, 2>>
    /\ dispatched[1].ev \in dispatched[1].chain[3]
    /\ dispatched[1].processed
    /\ dispatcher.map = <<>>

(***************************************************************************)
(* The lines of a render of the log widget and their pointers              *)
(***************************************************************************)
\* the formatted lines of the retained events from the i-th on that pass
\* the display filter of the widget state st, oldest event first
RECURSIVE ViewFilteredLines(_, _)
ViewFilteredLines(st, i) ==
    IF i > Len(ViewRetained) THEN <<>>
    ELSE (IF skip(st, ViewRetained[i]) THEN <<>>
          ELSE format(first_index(inner.events)[1] + i - 1, ViewRetained[i]))
         \o ViewFilteredLines(st, i + 1)

\* the lines now are the H lines of all from position k on
ViewRunAt(now, all, k, H) ==
    /\ k + H - 1 <= Len(all)
    /\ now = SubSeq(all, k, k + H - 1)

\* C26: when the anchored event is retained and passes the filter and the
\* filter-passing retained events have at least H lines in total, the
\* centered-scroll render yields exactly H lines that form one contiguous
\* run of the filtered line sequence containing the anchored line (strictly
\* increasing in (event_index, subline), no line repeated or skipped), also
\* when the anchor is at or near the oldest or newest retained event.
C26_CenteredWindow ==
    (/\ op = "render" /\ panic = "" /\ shown # None
     /\ area.width >= min_width /\ area.height >= 1
     /\ shown[1].center # None) =>
        LET all == ViewFilteredLines(state, 1)
            H == area.height
            anchored == [event |-> shown[1].center[1].event_index,
                         row |-> shown[1].center[1].subline]
        IN  (Len(all) >= H /\ \E j \in 1..Len(all) : all[j] = anchored) =>
                /\ Len(shown[1].lines) = H
                /\ \E k \in 1..Len(all) :
                      /\ ViewRunAt(ViewLinesOf(shown[1]), all, k, H)
                      /\ \E j \in k..(k + H - 1) : all[j] = anchored

\* C27: in bottom-follow and in centered-scroll renders every line drawn is
\* tagged with the pointer (event_index, subline) of the event it was
\* formatted from and of its 0-based position among the lines of that
\* event, also for events trimmed at the top or bottom of the viewport;
\* the cached prev-page and next-page pointers denote the top and the
\* bottom line drawn.
C27_PointerTagging ==
    (/\ op = "render" /\ panic = "" /\ shown # None
     /\ area.width >= min_width /\ area.height >= 1) =>
        LET lines == shown[1].lines IN
        /\ \A i \in 1..Len(lines) :
              lines[i].lp = LinePointer(lines[i].line.event, lines[i].line.row)
        /\ state.opt_line_pointer_prev_page # None =>
              /\ lines # <<>>
              /\ state.opt_line_pointer_prev_page[1] =
                    LinePointer(lines[1].line.event, lines[1].line.row)
        /\ state.opt_line_pointer_next_page # None =>
              /\ lines # <<>>
              /\ state.opt_line_pointer_next_page[1] =
                    LinePointer(lines[Len(lines)].line.event, lines[Len(lines)].line.row)

(***************************************************************************)
(* The generation recorded by merge (SpecMerge)                            *)
(***************************************************************************)
\* C30: after a merge(origin) that was not skipped, the origin_generation
\* of the merging table equals origin.generation, so that an immediately
\* following merge with the same unchanged origin finds origin_generation =
\* origin.generation and takes the skip path.
C30_MergeRecordsGeneration ==
    (/\ op = "render_target"
     /\ prior # None
     /\ prior[1].config.origin_generation # inner.targets.generation) =>
        state.config.origin_generation = inner.targets.generation

(***************************************************************************)
(* Specification SpecDisplay: the log widget rendered over a history of    *)
(* two targets and several levels, with a display table set up by the      *)
(* application, merged by the target widget and a focus on the selection.  *)
(***************************************************************************)
MaxDisplayEvents == 3

MaxDisplayHeight == 3

\* the records of the history: both targets, three levels, one or two lines
DisplayRecords ==
    {ExtLogRecord_from("a", Error, 1), ExtLogRecord_from("a", Debug, 2),
     ExtLogRecord_from("b", Info, 2)}

DisplayHistories == UNION {[1..n -> DisplayRecords] : n \in 0..MaxDisplayEvents}

\* TuiWidgetState::new() followed by none, one or both of
\* set_default_display_level(Warn) and set_level_for_target("a", Info)
DisplayStates ==
    LET new == TuiWidgetInnerState_new
        defaulted == LevelConfig_set_default_display_level(new.config, Warn)
    IN  {new,
         [new EXCEPT !.config = defaulted],
         [new EXCEPT !.config = LevelConfig_set(new.config, "a", Info)],
         [new EXCEPT !.config = LevelConfig_set(defaulted, "a", Info)]}

\* the keys that act on the display filter and on the scroll mode
DisplayEvents == {"FocusKey", "DownKey", "PrevPageKey", "EscapeKey"}

InitDisplay ==
    /\ \E history \in DisplayHistories : InitCold(ViewDepth, history)
    /\ state \in DisplayStates
    /\ area = [width |-> min_width, height |-> 1]

NextDisplay ==
    \/ \E la_height \in 1..MaxDisplayHeight : RenderResized(min_width, la_height)
    \/ \E event \in DisplayEvents : Transition(event)
    \/ RenderTarget(8, MaxTargetHeight)

SpecDisplay == InitDisplay /\ [][NextDisplay]_vars

(***************************************************************************)
(* Properties of the display filter and of bottom-follow renders           *)
(* (SpecDisplay)                                                           *)
(***************************************************************************)
\* a bottom-follow render of the log widget completed
DisplayBottomFollow ==
    /\ op = "render" /\ panic = "" /\ shown # None
    /\ area.width >= min_width /\ area.height >= 1
    /\ shown[1].center = None

DisplayConfigured(st, target) ==
    IF target \in DOMAIN st.config.config THEN Some(st.config.config[target])
    ELSE st.config.default_display_level

\* the display filter as the claim C28 states it
DisplaySkipped(st, evt) ==
    \/ /\ DisplayConfigured(st, evt.target) # None
       /\ DisplayConfigured(st, evt.target)[1] < evt.level
    \/ /\ st.focus_selected
       /\ st.opt_selected_target # None
       /\ st.opt_selected_target[1] # evt.target

\* the events drawn by a view
DisplayDrawn(v) == {v.lines[i].line.event : i \in 1..Len(v.lines)}

\* C28: an event is skipped iff (a) the display level configured for its
\* target (the explicit entry of the widget's table, else the table's
\* default display level, if either exists) is less verbose than the
\* event's level, or (b) focus_selected is active, a selected target is set
\* and the event's target differs from it; an event whose target has
\* neither entry nor default is never skipped by (a).  Stated for next_event
\* and for what a bottom-follow render with room for every line draws.
C28_DisplayFilter ==
    /\ \A i \in 1..Len(ViewRetained) :
          skip(state, ViewRetained[i]) = DisplaySkipped(state, ViewRetained[i])
    /\ (DisplayBottomFollow /\ Len(ViewFilteredLines(state, 1)) <= area.height) =>
          DisplayDrawn(shown[1]) =
              {first_index(inner.events)[1] + i - 1 : i \in
                  {j \in 1..Len(ViewRetained) : ~DisplaySkipped(state, ViewRetained[j])}}

\* C28 witness: of two retained events the one of the selected target
\* passes its explicit entry, the other one passes its entry as well and is
\* skipped by the focus on the selection alone, and the render drew exactly
\* the former
C28_Witness ==
    /\ DisplayBottomFollow
    /\ state.focus_selected
    /\ state.opt_selected_target = Some("a")
    /\ Len(ViewRetained) = 2
    /\ \E i, j \in 1..2 :
          /\ ViewRetained[i].target = "a" /\ ~skip(state, ViewRetained[i])
          /\ ViewRetained[j].target = "b" /\ skip(state, ViewRetained[j])
          /\ DisplayConfigured(state, "b") # None
          /\ DisplayConfigured(state, "b")[1] >= ViewRetained[j].level
    /\ Cardinality(DisplayDrawn(shown[1])) = 1

(***************************************************************************)
(* The generation counter of a LevelConfig (SpecMerge)                      *)
(***************************************************************************)
\* an operation on the widget's table (set, set_default_display_level or a
\* merge by the target widget) has just completed
TableOperated ==
    /\ prior # None
    /\ op \in {"render_target", "widget_set_level_for_target",
               "widget_set_default_display_level"}

\* C31: the generation of a LevelConfig never decreases under set and merge,
\* and it increases on every operation that changes the entries of the
\* table.
C31_GenerationMonotonic ==
    TableOperated =>
        /\ state.config.generation >= prior[1].config.generation
        /\ (state.config.config # prior[1].config.config =>
                state.config.generation > prior[1].config.generation)

\* the part of C31 about set alone
C31_SetBumps ==
    (prior # None /\ op = "widget_set_level_for_target") =>
        /\ state.config.generation >= prior[1].config.generation
        /\ (state.config.config # prior[1].config.config =>
                state.config.generation > prior[1].config.generation)

\* the part of C31 about merge never lowering the counter
C31_MergeNeverLowers ==
    (prior # None /\ op = "render_target") =>
        state.config.generation >= prior[1].config.generation

(***************************************************************************)
(* move_events on an empty hot buffer (SpecLog)                            *)
(***************************************************************************)
\* C32: a move_events that finds the hot buffer empty changes nothing: the
\* hot buffer is not replaced, and the cold store, the cold level table,
\* the hot hash table and total_events are as before.
C32_EmptyMoveIsNoop ==
    [][(op' = "move_events" /\ total_elements(hot_log.events) = 0) =>
           /\ hot_log' = hot_log
           /\ inner' = inner
           /\ hot_select' = hot_select]_vars

\* a move_events found the hot buffer empty after an earlier one had filled
\* the cold store and set_hot_buffer_depth had changed the depth of the next
\* hot buffer: the hot buffer still has its old depth
C32_Witness ==
    /\ op = "move_events"
    /\ panic = ""
    /\ total_elements(hot_log.events) = 0
    /\ total_elements(inner.events) > 0
    /\ capacity(hot_log.events) # inner.hot_depth

(***************************************************************************)
(* Specification SpecThreads: the logger used by several threads.  One     *)
(* thread logs, the mover thread of init_logger and a thread of the        *)
(* application call move_events, two threads call set_level_for_target for *)
(* the same target and one calls set_buffer_depth.  A step is what a       *)
(* thread does between two acquisitions of a Mutex; a lock taken and       *)
(* dropped within one statement is one step, which waits until the Mutex   *)
(* is free.                                                                *)
(***************************************************************************)
MaxThreadLog == 3

\* the records the logging thread logs, in this order; no two are equal
ThreadRecords ==
    SubSeq(<<ExtLogRecord_from("a", Error, 1), ExtLogRecord_from("b", Warn, 1),
             ExtLogRecord_from("a", Info, 1), ExtLogRecord_from("b", Error, 1),
             ExtLogRecord_from("b", Info, 1)>>, 1, Min(MaxThreadLog, 5))

\* the env filter set before the threads start: none, or "a=info"
ThreadFilters == {None, Some([t \in AllTargets |-> IF t = "a" THEN Info ELSE Off])}

MoverThreads == {"mover", "manual"}

SetterThreads == {"setter1", "setter2"}

\* the levels the two threads set for target "a"
SetterLevel == [t \in SetterThreads |-> IF t = "setter1" THEN Error ELSE Debug]

ThreadIds == {"producer", "app"} \cup MoverThreads \cup SetterThreads

Free(m) == mutex[m] = None

Holds(t, m) == mutex[m] = Some(t)

\* what no step of a thread of the logger changes
threadFrame ==
    <<cb, pushed, taken, drained, created, dispatcherVars, accepted, moved, lastSet,
      lastDefault, budget>>

\* what a thread is about to do when the threads start
ThreadStart(t) ==
    IF t = "producer" THEN [pc |-> "log", next |-> 1]
    ELSE IF t \in MoverThreads
    THEN [pc |-> "idle", hot_depth |-> 0, received_events |-> <<>>, reversed |-> <<>>]
    ELSE IF t \in SetterThreads THEN [pc |-> "set_level_for_target"]
    ELSE [pc |-> "idle"]

\* the logger after init_logger and the env filter, a new TuiWidgetState and
\* the threads ids about to start
InitThreaded(ids) ==
    /\ created = 0
    /\ cb = CircularBuffer_new(0)
    /\ pushed = <<>>
    /\ taken = None
    /\ drained = <<>>
    /\ InitDispatcher
    /\ op = "init_logger"
    /\ panic = ""
    /\ budget = 0
    /\ \E filter \in ThreadFilters :
          /\ hot_select = [filter |-> filter, hashtable |-> EmptyMap, default |-> Info]
          /\ inner = [hot_depth |-> HotDepth0,
                      events |-> CircularBuffer_new(ColdDepth0),
                      total_events |-> 0,
                      default |-> Info,
                      targets |-> LevelConfig_new,
                      filter |-> filter]
    /\ hot_log = [events |-> CircularBuffer_new(HotDepth0)]
    /\ accepted = <<>>
    /\ moved = None
    /\ lastSet = [t \in AllTargets |-> None]
    /\ lastDefault = Info
    /\ state = TuiWidgetInnerState_new
    /\ shown = None
    /\ before = None
    /\ key = ""
    /\ keyed = ""
    /\ area = [width |-> min_width, height |-> 0]
    /\ prior = None
    /\ mutex = [m \in Mutexes |-> None]
    /\ captured = 0
    /\ threads = [t \in ids |-> ThreadStart(t)]

InitThreads == InitThreaded(ThreadIds)

\* Log::log, first statement: self.enabled(record.metadata()) under the
\* lock of hot_select
LogEnabled(t) ==
    /\ threads[t].pc = "log"
    /\ threads[t].next <= Len(ThreadRecords)
    /\ Free("hot_select")
    /\ op' = "log"
    /\ panic' = ""
    /\ LET record == ThreadRecords[threads[t].next] IN
       threads' = [threads EXCEPT ![t] =
                      IF enabled(hot_select, record.target, record.level)
                      THEN [pc |-> "raw_log", next |-> @.next]
                      ELSE [pc |-> "log", next |-> @.next + 1]]
    /\ UNCHANGED <<mutex, captured, hot_select, hot_log, inner, threadFrame, widgetVars>>

\* TuiLogger::raw_log under the lock of hot_log
LogRaw(t) ==
    /\ threads[t].pc = "raw_log"
    /\ Free("hot_log")
    /\ op' = "log"
    /\ panic' = IF raw_log_panics(hot_log) THEN "remainder with a divisor of zero" ELSE ""
    /\ hot_log' = raw_log(hot_log, ThreadRecords[threads[t].next])
    /\ captured' = IF push_panics(hot_log.events) THEN captured ELSE captured + 1
    /\ threads' = [threads EXCEPT ![t] = [pc |-> "log", next |-> @.next + 1]]
    /\ UNCHANGED <<mutex, hot_select, inner, threadFrame, widgetVars>>

\* move_events: the check of the hot buffer under the lock of hot_log
MoveCheck(t) ==
    /\ threads[t].pc = "idle"
    /\ Free("hot_log")
    /\ op' = "move_events"
    /\ panic' = ""
    /\ threads' = [threads EXCEPT ![t].pc =
                      IF total_elements(hot_log.events) = 0 THEN "idle" ELSE "hot_depth"]
    /\ UNCHANGED <<mutex, captured, hot_select, hot_log, inner, threadFrame, widgetVars>>

\* move_events: let hot_depth = self.inner.lock().hot_depth
MoveHotDepth(t) ==
    /\ threads[t].pc = "hot_depth"
    /\ Free("inner")
    /\ op' = "move_events"
    /\ panic' = ""
    /\ threads' = [threads EXCEPT ![t].pc = "swap", ![t].hot_depth = inner.hot_depth]
    /\ UNCHANGED <<mutex, captured, hot_select, hot_log, inner, threadFrame, widgetVars>>

\* move_events: mem::replace(&mut hl.events, new_circular) under the lock of
\* hot_log
MoveSwap(t) ==
    /\ threads[t].pc = "swap"
    /\ Free("hot_log")
    /\ op' = "move_events"
    /\ panic' = ""
    /\ hot_log' = [hot_log EXCEPT !.events = CircularBuffer_new(threads[t].hot_depth)]
    /\ threads' = [threads EXCEPT ![t].pc = "lock_inner",
                                  ![t].received_events = hot_log.events]
    /\ UNCHANGED <<mutex, captured, hot_select, inner, threadFrame, widgetVars>>

\* mutant of move_events_count: the records still retained are counted
\* instead of the records received
move_events_count_retained(tli, received_events) ==
    [tli EXCEPT !.total_events = @ + len(received_events)]

\* move_events: tli.total_events += total
move_events_count(tli, received_events) ==
    [tli EXCEPT !.total_events = @ + total_elements(received_events)]

\* move_events: let mut tli = self.inner.lock(), the count and the drained
\* records in the order of the loop; with nothing drained (another
\* move_events exchanged the buffer first) the loop body never runs and the
\* lock is dropped at once
MoveLockInner(t) ==
    /\ threads[t].pc = "lock_inner"
    /\ Free("inner")
    /\ op' = "move_events"
    /\ panic' = ""
    /\ inner' = move_events_count(inner, threads[t].received_events)
    /\ LET reversed == MoveEntries(threads[t].received_events) IN
       IF reversed = <<>>
       THEN /\ mutex' = mutex
            /\ threads' = [threads EXCEPT ![t].pc = "idle", ![t].received_events = <<>>]
       ELSE /\ mutex' = [mutex EXCEPT !["inner"] = Some(t)]
            /\ threads' = [threads EXCEPT ![t].pc = "loop",
                                          ![t].received_events = <<>>,
                                          ![t].reversed = reversed]
    /\ UNCHANGED <<captured, hot_select, hot_log, threadFrame, widgetVars>>

\* mutant of MoveProbes: the hot hash table is written for every record
MoveProbes_always(tli, log_entry) == TRUE

\* the loop of move_events reaches self.hot_select.lock().hashtable.insert
\* for log_entry: the target is unseen and the env filter enables the record
MoveProbes(tli, log_entry) ==
    /\ LevelConfig_get(tli.targets, log_entry.target) = None
    /\ tli.filter # None
    /\ Filter_enabled(tli.filter[1], log_entry.target, log_entry.level)

\* the end of one pass of the loop of move_events: st is the result of
\* MoveEntry; a panic unwinds the thread and drops its locks
MoveLooped(t, st) ==
    /\ inner' = st.tli
    /\ hot_select' = [hot_select EXCEPT !.hashtable = st.hashtable]
    /\ panic' = st.panic
    /\ IF st.panic # ""
       THEN /\ threads' = [threads EXCEPT ![t].pc = "panicked", ![t].reversed = <<>>]
            /\ mutex' = [m \in Mutexes |-> IF Holds(t, m) THEN None ELSE mutex[m]]
       ELSE IF Tail(threads[t].reversed) = <<>>
       THEN /\ threads' = [threads EXCEPT ![t].pc = "idle", ![t].reversed = <<>>]
            /\ mutex' = [m \in Mutexes |-> IF Holds(t, m) THEN None ELSE mutex[m]]
       ELSE /\ threads' = [threads EXCEPT ![t].pc = "loop", ![t].reversed = Tail(@)]
            /\ mutex' = [mutex EXCEPT !["hot_select"] =
                            IF Holds(t, "hot_select") THEN None ELSE @]

\* move_events: one pass of the loop that does not write the hot hash table
MoveLoopPass(t) ==
    /\ threads[t].pc = "loop"
    /\ Holds(t, "inner")
    /\ ~MoveProbes(inner, Head(threads[t].reversed))
    /\ op' = "move_events"
    /\ MoveLooped(t, MoveEntry([tli |-> inner, hashtable |-> hot_select.hashtable,
                                panic |-> ""], Head(threads[t].reversed)))
    /\ UNCHANGED <<captured, hot_log, threadFrame, widgetVars>>

\* move_events: self.hot_select.lock() within the loop, the lock of inner held
MoveLockHotSelect(t) ==
    /\ threads[t].pc = "loop"
    /\ Holds(t, "inner")
    /\ MoveProbes(inner, Head(threads[t].reversed))
    /\ Free("hot_select")
    /\ op' = "move_events"
    /\ panic' = ""
    /\ mutex' = [mutex EXCEPT !["hot_select"] = Some(t)]
    /\ threads' = [threads EXCEPT ![t].pc = "insert"]
    /\ UNCHANGED <<captured, hot_select, hot_log, inner, threadFrame, widgetVars>>

\* move_events: hashtable.insert(h, lf), the lock of hot_select dropped and
\* the rest of the pass
MoveInsert(t) ==
    /\ threads[t].pc = "insert"
    /\ op' = "move_events"
    /\ MoveLooped(t, MoveEntry([tli |-> inner, hashtable |-> hot_select.hashtable,
                                panic |-> ""], Head(threads[t].reversed)))
    /\ UNCHANGED <<captured, hot_log, threadFrame, widgetVars>>

\* api::set_level_for_target, TUI_LOGGER.inner.lock().targets.set(..)
SetLevelCold(t, target, levelfilter) ==
    /\ threads[t].pc = "set_level_for_target"
    /\ Free("inner")
    /\ op' = "set_level_for_target"
    /\ panic' = ""
    /\ inner' = set_level_for_target_inner(inner, target, levelfilter)
    /\ threads' = [threads EXCEPT ![t].pc = "insert"]
    /\ UNCHANGED <<mutex, captured, hot_select, hot_log, threadFrame, widgetVars>>

\* api::set_level_for_target, hs.hashtable.insert(h, levelfilter) and return
SetLevelHot(t, target, levelfilter) ==
    /\ threads[t].pc = "insert"
    /\ Free("hot_select")
    /\ op' = "set_level_for_target"
    /\ panic' = ""
    /\ hot_select' = set_level_for_target_hot(hot_select, target, levelfilter)
    /\ threads' = [threads EXCEPT ![t].pc = "returned"]
    /\ UNCHANGED <<mutex, captured, hot_log, inner, threadFrame, widgetVars>>

\* api::set_buffer_depth called by a thread of the application
ThreadSetBufferDepth(t, depth) ==
    /\ threads[t].pc = "idle"
    /\ Free("inner")
    /\ op' = "set_buffer_depth"
    /\ panic' = ""
    /\ inner' = [inner EXCEPT !.events = CircularBuffer_new(depth)]
    /\ UNCHANGED <<threads, mutex, captured, hot_select, hot_log, threadFrame, widgetVars>>

NextThreads ==
    \/ LogEnabled("producer")
    \/ LogRaw("producer")
    \/ \E t \in MoverThreads : MoveCheck(t)
    \/ \E t \in MoverThreads : MoveHotDepth(t)
    \/ \E t \in MoverThreads : MoveSwap(t)
    \/ \E t \in MoverThreads : MoveLockInner(t)
    \/ \E t \in MoverThreads : MoveLoopPass(t)
    \/ \E t \in MoverThreads : MoveLockHotSelect(t)
    \/ \E t \in MoverThreads : MoveInsert(t)
    \/ \E t \in SetterThreads : SetLevelCold(t, "a", SetterLevel[t])
    \/ \E t \in SetterThreads : SetLevelHot(t, "a", SetterLevel[t])
    \/ \E depth \in 0..MaxColdDepth : ThreadSetBufferDepth("app", depth)

SpecThreads == InitThreads /\ [][NextThreads]_vars

(***************************************************************************)
(* The locks of move_events (SpecThreads)                                  *)
(***************************************************************************)
\* C33 as stated: in every execution of move_events no hot-path lock
\* (hot_log or hot_select) is held or acquired while the cold-store lock
\* (inner) is held; the hot-path locks are dropped before the cold-store
\* lock is taken.
C33_NoHotLockUnderCold ==
    \A t \in MoverThreads :
        Holds(t, "inner") => ~Holds(t, "hot_log") /\ ~Holds(t, "hot_select")

\* C33, amended: move_events never holds hot_log together with the
\* cold-store lock and never takes the cold-store lock while it holds a
\* hot-path lock; it holds hot_select only inside the cold-store lock, and
\* only in the pass of the loop for a record whose target is unseen in the
\* cold table and which the env filter enables (the insert of the probed
\* level filter into the hot hash table).
C33_MoverLockOrder ==
    \A t \in MoverThreads :
        /\ ~Holds(t, "hot_log")
        /\ Holds(t, "hot_select") =>
              /\ Holds(t, "inner")
              /\ threads[t].pc = "insert"
              /\ LET log_entry == Head(threads[t].reversed) IN
                 /\ LevelConfig_get(inner.targets, log_entry.target) = None
                 /\ inner.filter # None
                 /\ Filter_enabled(inner.filter[1], log_entry.target, log_entry.level)

\* a move_events holds the cold-store lock and hot_select at once
C33_Witness ==
    \E t \in MoverThreads :
        /\ Holds(t, "inner")
        /\ Holds(t, "hot_select")
        /\ threads[t].pc = "insert"

(***************************************************************************)
(* The order of the records of one thread in the cold store (SpecThreads)  *)
(***************************************************************************)
\* the position of a record in the order the logging thread logs
ThreadIndex(r) == CHOOSE k \in 1..Len(ThreadRecords) : ThreadRecords[k] = r

\* C34: of two records logged by the same thread that are both retained in
\* the cold store, the one logged first has the smaller cold-store index,
\* also with move_events running in the mover thread and in a thread of the
\* application at once.
C34_ProducerOrder ==
    LET retained == iter(inner.events) IN
    \A i, j \in 1..Len(retained) :
        (/\ i < j
         /\ retained[i].target # OverrunTarget
         /\ retained[j].target # OverrunTarget) =>
            ThreadIndex(retained[i]) < ThreadIndex(retained[j])

(***************************************************************************)
(* Concurrent set_level_for_target (SpecThreads)                           *)
(***************************************************************************)
\* C36: once all concurrent calls of set_level_for_target for a target have
\* returned, the level of the target in the cold level table equals its
\* level in the hot hash table.
C36_SettersAgree ==
    (\A t \in SetterThreads : threads[t].pc = "returned") =>
        /\ fxhash64("a") \in DOMAIN hot_select.hashtable
        /\ LevelConfig_get(inner.targets, "a") = Some(hot_select.hashtable[fxhash64("a")])

(***************************************************************************)
(* The count of the records (SpecThreads)                                  *)
(***************************************************************************)
\* no move_events is between its exchange of the buffers and its update of
\* the cold store
MoveQuiescent == \A t \in MoverThreads : threads[t].pc # "lock_inner"

\* C37: whenever no move_events is between its buffer swap and its
\* cold-store update, the number of records pushed into a hot buffer since
\* start equals inner.total_events plus total_elements() of the hot buffer
\* (so a synthesized overrun record is not counted); set_buffer_depth leaves
\* total_events as it is.
C37_EventCountConservation ==
    [][/\ MoveQuiescent' =>
              captured' = inner'.total_events + total_elements(hot_log'.events)
       /\ op' = "set_buffer_depth" => inner'.total_events = inner.total_events]_vars

\* all records are counted in total_events, one of them was lost in the hot
\* buffer (an overrun record stands for it in the cold store), and
\* set_buffer_depth has since replaced the cold buffer of four by one of two
C37_Witness ==
    /\ MoveQuiescent
    /\ captured = Len(ThreadRecords)
    /\ inner.total_events = Len(ThreadRecords)
    /\ capacity(inner.events) = 2
    /\ \E i \in 1..len(inner.events) : iter(inner.events)[i].target = OverrunTarget

(***************************************************************************)
(* Specification SpecLocks: threads of SpecThreads (the logging thread,    *)
(* the mover thread, one setter) together with three threads that share    *)
(* one TuiWidgetState: one renders the target widget, one renders the log  *)
(* widget and one calls TuiWidgetState::transition.                        *)
(***************************************************************************)
\* the key events of the thread that calls transition: one that needs the
\* lock of the state only, and the two that call set_level_for_target
LockEvents == {"DownKey", "PlusKey", "MinusKey"}

LockThreads == {"producer", "mover", "setter1", "target", "view", "keys"}

\* the Mutex the next step of thread t has to lock ("" if none)
Wants(t) ==
    LET pc == threads[t].pc IN
    IF t = "target" THEN (IF pc = "idle" THEN "inner" ELSE "state")
    ELSE IF t = "view" THEN (IF pc = "idle" THEN "state" ELSE "inner")
    ELSE IF t = "keys"
    THEN (IF pc = "idle" THEN "state" ELSE IF pc = "set_cold" THEN "inner"
          ELSE "hot_select")
    ELSE IF t = "producer"
    THEN (IF pc = "raw_log" THEN "hot_log"
          ELSE IF threads[t].next <= Len(ThreadRecords) THEN "hot_select" ELSE "")
    ELSE IF t \in MoverThreads
    THEN (IF pc \in {"idle", "swap"} THEN "hot_log"
          ELSE IF pc \in {"hot_depth", "lock_inner"} THEN "inner"
          ELSE IF pc = "loop" /\ MoveProbes(inner, Head(threads[t].reversed))
          THEN "hot_select" ELSE "")
    ELSE IF t \in SetterThreads
    THEN (IF pc = "set_level_for_target" THEN "inner"
          ELSE IF pc = "insert" THEN "hot_select" ELSE "")
    ELSE ""

InitLocks == InitThreaded(LockThreads)

\* Widget::render of TuiLoggerTargetWidget: TUI_LOGGER.inner.lock()
TargetLockInner(t) ==
    /\ threads[t].pc = "idle"
    /\ Free("inner")
    /\ op' = "render_target"
    /\ panic' = ""
    /\ mutex' = [mutex EXCEPT !["inner"] = Some(t)]
    /\ threads' = [threads EXCEPT ![t].pc = "lock_state"]
    /\ UNCHANGED <<captured, hot_select, hot_log, inner, threadFrame, widgetVars>>

\* Widget::render of TuiLoggerTargetWidget: self.state.lock() with the lock
\* of inner held, the rest of the render and the drop of both locks
TargetLockState(t, la_width, la_height) ==
    /\ threads[t].pc = "lock_state"
    /\ Holds(t, "inner")
    /\ Free("state")
    /\ op' = "render_target"
    /\ TargetRendered(render_target(state, inner.targets, la_width, la_height), la_height)
    /\ mutex' = [mutex EXCEPT !["inner"] = None]
    /\ threads' = [threads EXCEPT ![t].pc = "idle"]
    /\ UNCHANGED <<captured, hot_select, hot_log, inner, threadFrame, shown, before, key,
                   keyed, area, prior>>

\* Widget::render of TuiLoggerWidget: self.state.lock()
ViewLockState(t) ==
    /\ threads[t].pc = "idle"
    /\ Free("state")
    /\ op' = "render"
    /\ panic' = ""
    /\ mutex' = [mutex EXCEPT !["state"] = Some(t)]
    /\ threads' = [threads EXCEPT ![t].pc = "lock_inner"]
    /\ UNCHANGED <<captured, hot_select, hot_log, inner, threadFrame, widgetVars>>

\* Widget::render of TuiLoggerWidget: TUI_LOGGER.inner.lock() with the lock
\* of the state held, the rest of the render and the drop of both locks
ViewLockInner(t, la_width, la_height) ==
    /\ threads[t].pc = "lock_inner"
    /\ Holds(t, "state")
    /\ Free("inner")
    /\ op' = "render"
    /\ area' = [width |-> la_width, height |-> la_height]
    /\ Rendered(render(state, inner.events, la_width, la_height))
    /\ mutex' = [mutex EXCEPT !["state"] = None]
    /\ threads' = [threads EXCEPT ![t].pc = "idle"]
    /\ UNCHANGED <<captured, hot_select, hot_log, inner, threadFrame, before, key, keyed,
                   prior>>

\* TuiWidgetState::transition: self.inner.lock().transition(event); with
\* PlusKey or MinusKey and a level to set the lock is kept for the call of
\* set_level_for_target
KeyLockState(t, event) ==
    /\ threads[t].pc = "idle"
    /\ Free("state")
    /\ transition_recording(state, event) # None => inner.targets.generation < MaxGen
    /\ op' = "transition"
    /\ panic' = ""
    /\ state' = transition(state, event)
    /\ LET recording == transition_recording(state, event) IN
       IF recording = None
       THEN UNCHANGED <<threads, mutex>>
       ELSE /\ mutex' = [mutex EXCEPT !["state"] = Some(t)]
            /\ threads' = [threads EXCEPT ![t] =
                              [pc |-> "set_cold", target |-> recording[1][1],
                               levelfilter |-> recording[1][2]]]
    /\ UNCHANGED <<captured, hot_select, hot_log, inner, threadFrame, shown, before, key,
                   keyed, area, prior>>

\* set_level_for_target called by transition: the cold table, the lock of
\* the state held
KeySetCold(t) ==
    /\ threads[t].pc = "set_cold"
    /\ Holds(t, "state")
    /\ Free("inner")
    /\ op' = "transition"
    /\ panic' = ""
    /\ inner' = set_level_for_target_inner(inner, threads[t].target, threads[t].levelfilter)
    /\ threads' = [threads EXCEPT ![t].pc = "set_hot"]
    /\ UNCHANGED <<mutex, captured, hot_select, hot_log, threadFrame, widgetVars>>

\* set_level_for_target called by transition: the hot hash table, then the
\* return of transition drops the lock of the state
KeySetHot(t) ==
    /\ threads[t].pc = "set_hot"
    /\ Holds(t, "state")
    /\ Free("hot_select")
    /\ op' = "transition"
    /\ panic' = ""
    /\ hot_select' = set_level_for_target_hot(hot_select, threads[t].target,
                                              threads[t].levelfilter)
    /\ mutex' = [mutex EXCEPT !["state"] = None]
    /\ threads' = [threads EXCEPT ![t] = [pc |-> "idle"]]
    /\ UNCHANGED <<captured, hot_log, inner, threadFrame, widgetVars>>

NextLocks ==
    \/ LogEnabled("producer")
    \/ LogRaw("producer")
    \/ MoveCheck("mover")
    \/ MoveHotDepth("mover")
    \/ MoveSwap("mover")
    \/ MoveLockInner("mover")
    \/ MoveLoopPass("mover")
    \/ MoveLockHotSelect("mover")
    \/ MoveInsert("mover")
    \/ SetLevelCold("setter1", "a", SetterLevel["setter1"])
    \/ SetLevelHot("setter1", "a", SetterLevel["setter1"])
    \/ TargetLockInner("target")
    \/ TargetLockState("target", 8, MaxTargetHeight)
    \/ ViewLockState("view")
    \/ ViewLockInner("view", min_width, 2)
    \/ \E event \in LockEvents : KeyLockState("keys", event)
    \/ KeySetCold("keys")
    \/ KeySetHot("keys")

SpecLocks == InitLocks /\ [][NextLocks]_vars

\* the threads of S wait for each other: each is about to lock a Mutex that
\* a thread of S holds
WaitForEachOther(S) ==
    /\ S # {}
    /\ \A t \in S :
          /\ Wants(t) # ""
          /\ mutex[Wants(t)] # None
          /\ mutex[Wants(t)][1] \in S

\* C35: no interleaving of threads that render the target widget, render the
\* log widget, call transition (PlusKey and MinusKey included),
\* set_level_for_target, log and move_events reaches a state in which
\* threads wait for each other's Mutexes forever.
C35_DeadlockFree == ~\E S \in SUBSET DOMAIN threads : WaitForEachOther(S)

(***************************************************************************)
(* Specification SpecFocus: the log widget with a focus on the selected    *)
(* target, the target widget and the keys that change levels.              *)
(***************************************************************************)
\* the keys that change a display level or a recording level
LevelKeys == {"LeftKey", "RightKey", "PlusKey", "MinusKey"}

InitFocus ==
    /\ \E history \in KeyHistories : InitCold(ColdDepth0, history)
    /\ state = TuiWidgetInnerState_new
    /\ area = [width |-> min_width, height |-> MaxDisplayHeight]

NextFocus ==
    \/ RenderResized(min_width, MaxDisplayHeight)
    \/ RenderTarget(8, MaxTargetHeight)
    \/ \E event \in LevelKeys \cup {"FocusKey", "HideKey"} : Transition(event)

SpecFocus == InitFocus /\ [][NextFocus]_vars

\* the targets of the events a view shows
FocusTargetsOf(v, events) ==
    {element_at_index(events, i)[1].target : i \in DisplayDrawn(v)}

\* C38: LeftKey, RightKey, PlusKey and MinusKey leave opt_selected_target
\* unchanged, so that with focus_selected a render of the log widget right
\* after such a key (no render of the target widget in between, the target
\* pane hidden or not) shows events of one target only, the selected one.
C38_LevelKeysKeepSelection ==
    [][/\ (op' = "transition" /\ key' \in LevelKeys) =>
              state'.opt_selected_target = state.opt_selected_target
       /\ (/\ op' = "render" /\ key \in LevelKeys
           /\ state.focus_selected /\ state.nr_items > 0
           /\ panic' = "") =>
              Cardinality(FocusTargetsOf(shown'[1], inner.events)) <= 1]_vars

\* the first part of C38 alone
C38_SelectionKept ==
    [][(op' = "transition" /\ key' \in LevelKeys) =>
           state'.opt_selected_target = state.opt_selected_target]_vars

\* the second part of C38 alone
C38_FocusKept ==
    [][(/\ op' = "render" /\ key \in LevelKeys
        /\ state.focus_selected /\ state.nr_items > 0
        /\ panic' = "") =>
           Cardinality(FocusTargetsOf(shown'[1], inner.events)) <= 1]_vars

(***************************************************************************)
(* The centered render as a total function (SpecDisplay)                   *)
(***************************************************************************)
\* a render of the log widget in centered-scroll mode on a viewport of at
\* least one row has just ended (with or without a panic)
DisplayCentered ==
    /\ op = "render" /\ shown # None
    /\ area.width >= min_width /\ area.height >= 1
    /\ shown[1].center # None

\* C40: for every reachable widget state, cold-store content and viewport
\* height >= 1, with every event formatting to at least one line, the
\* centered-scroll render completes: no unsigned subtraction underflows and
\* no line is removed from an empty vector.
C40_RenderTotal == DisplayCentered => panic = ""

(***************************************************************************)
(* A scrolled view with something to show (SpecDisplay)                    *)
(***************************************************************************)
\* C39: a centered-scroll render on a viewport of at least one row that
\* completes draws at least one line if at least one retained event passes
\* the filter, also when the anchored event and all newer events are
\* filtered out.
C39_ScrolledNeverBlank ==
    (/\ DisplayCentered
     /\ panic = ""
     /\ \E i \in 1..Len(ViewRetained) : ~skip(state, ViewRetained[i])) =>
        shown[1].lines # <<>>

====
